---- MODULE Spec2Model ----
(***************************************************************************)
(* Statement-to-structured-data extraction pipeline of the asset manager:  *)
(* AIAssetStatementParser (src/ai_statement_parser.py) as driven by the    *)
(* /api/parse-statement-ai handler (src/complete_api_server_ai.py).        *)
(*                                                                         *)
(* Amounts are fixed-point numbers in thousandths (9.20 is 9200); share    *)
(* counts and weights are whole units.  A text is a sequence of            *)
(* characters, each a one-element string; the CJK characters of the        *)
(* balance keywords are written by code point ("U+4F59" is the character   *)
(* 0x4F59).                                                                *)
(***************************************************************************)
EXTENDS Integers, Sequences, FiniteSets, TLC

VARIABLES
    keys,       \* which provider credentials are set (__init__)
    doc,        \* the uploaded document: declared type, readability, text
    pc,         \* position of the run inside parse_file_with_ai / the handler
    calls,      \* provider requests issued so far, in order, with outcome
    response,   \* content of the last provider response that reached _parse_ai_response
    fallbackRan,\* whether _fallback_parse has run
    result,     \* value returned by parse_file_with_ai (None before it returns)
    report,     \* value of generate_asset_report attached by the handler
    reportCalls,\* the calls of generate_asset_report made so far: the snapshot
                \* given, the snapshot as the call left it, the value returned
    cache,      \* the files of CACHE_DIR of the price servers, by cache key
    now,        \* the clock of the price servers, in minutes
    tmp         \* the temporary upload files on the disk of the server

\* the state outside the parsers
host == <<reportCalls, cache, now, tmp>>

vars == <<keys, doc, pc, calls, response, fallbackRan, result, report, host>>

None == [none |-> TRUE]

\* no report generated, nothing cached, no upload on disk
HostIdle ==
    /\ reportCalls = <<>>
    /\ cache = <<>>
    /\ now = 0
    /\ tmp = {}

(***************************************************************************)
(* Bounds of the model.                                                    *)
(***************************************************************************)
MaxItems == 2      \* longest list in one field of a provider payload

(***************************************************************************)
(* Fixed-point arithmetic.                                                 *)
(***************************************************************************)
Abs(x) == IF x < 0 THEN -x ELSE x

\* round(x, 2) of an amount in thousandths, as an amount in thousandths that
\* is a whole number of hundredths; an exact tie goes to the even hundredth.
Round2(x) ==
    LET a == Abs(x)
        q == a \div 10
        r == a % 10
        up == IF r > 5 THEN 1 ELSE IF r < 5 THEN 0 ELSE q % 2
    IN  IF x < 0 THEN -10 * (q + up) ELSE 10 * (q + up)

\* dict.get(key, default)
Get(d, k, default) == IF k \in DOMAIN d THEN d[k] ELSE default

(***************************************************************************)
(* Characters and the regular expressions of _fallback_parse.              *)
(***************************************************************************)
Digits == {"0", "1", "2", "3", "4", "5", "6", "7", "8", "9"}
Upper == {"A", "B", "C", "D", "E", "F", "G", "H", "I", "J", "K", "L", "M",
          "N", "O", "P", "Q", "R", "S", "T", "U", "V", "W", "X", "Y", "Z"}
Lower == {"a", "b", "c", "d", "e", "f", "g", "h", "i", "j", "k", "l", "m",
          "n", "o", "p", "q", "r", "s", "t", "u", "v", "w", "x", "y", "z"}
CJK == {"U+4F59", "U+989D", "U+73B0", "U+91D1", "U+4EE3", "U+7801", "U+6570",
        "U+91CF", "U+4EF7", "U+683C", "U+5408", "U+8BA1", "U+603B", "U+80A1",
        "U+7968", "U+8D44", "U+4EA7", "U+57FA", "U+516C", "U+79EF", "U+540D",
        "U+79F0", "U+5BCC", "U+9014", "U+5FAE", "U+725B", "U+8D26", "U+6237",
        "U+9EC4"}
WordChars == Digits \cup Upper \cup Lower \cup CJK \cup {"_"}     \* \w
PriceChars == Digits \cup {",", "."}                               \* [\d,.]
Whitespace == {" ", "\n", "\t"}

DigitValue(c) ==
    CASE c = "0" -> 0 [] c = "1" -> 1 [] c = "2" -> 2 [] c = "3" -> 3
      [] c = "4" -> 4 [] c = "5" -> 5 [] c = "6" -> 6 [] c = "7" -> 7
      [] c = "8" -> 8 [] c = "9" -> 9

\* t[a..b] as a sequence (empty when b < a)
Slice(t, a, b) == IF b < a THEN <<>> ELSE SubSeq(t, a, b)

\* every character of t[a..b] is in class C
AllIn(t, a, b, C) == \A i \in a..b : t[i] \in C

\* "." of a pattern compiled without DOTALL: any character but a newline
NoNewline(t, a, b) == \A i \in a..b : t[i] # "\n"

\* \b at the gap in front of position i (1 <= i <= Len(t)+1)
IsWordAt(t, i) == i >= 1 /\ i <= Len(t) /\ t[i] \in WordChars
Boundary(t, i) == IsWordAt(t, i - 1) # IsWordAt(t, i)

\* last position of the maximal run of class C that starts at p
RECURSIVE RunEnd(_, _, _)
RunEnd(t, p, C) ==
    IF p + 1 <= Len(t) /\ t[p + 1] \in C THEN RunEnd(t, p + 1, C) ELSE p

NoMatch == [ok |-> FALSE]

\* `.*?(\d+).*?([\d,.]+)` anchored at position e: the lazy gaps take the
\* fewest characters, the groups the most, in backtracking order.
TailMatch(t, e) ==
    LET Second(from) == {p2 \in from..Len(t) :
                            t[p2] \in PriceChars /\ NoNewline(t, from, p2 - 1)}
        Lens(p1) == {d \in 1..(RunEnd(t, p1, Digits) - p1 + 1) :
                            Second(p1 + d) # {}}
        First == {p1 \in e..Len(t) :
                    /\ t[p1] \in Digits
                    /\ NoNewline(t, e, p1 - 1)
                    /\ Lens(p1) # {}}
    IN  IF First = {} THEN NoMatch
        ELSE LET p1 == CHOOSE p \in First : \A q \in First : p <= q
                 d == CHOOSE x \in Lens(p1) : \A y \in Lens(p1) : x >= y
                 S2 == Second(p1 + d)
                 p2 == CHOOSE p \in S2 : \A q \in S2 : p <= q
                 last == RunEnd(t, p2, PriceChars)
             IN  [ok |-> TRUE,
                  shares |-> Slice(t, p1, p1 + d - 1),
                  price |-> Slice(t, p2, last),
                  next |-> last + 1]

\* `\b(\d{4})\b` at position s: the position after the symbol, 0 if none
SymbolEndMY(t, s) ==
    IF /\ s + 3 <= Len(t)
       /\ AllIn(t, s, s + 3, Digits)
       /\ Boundary(t, s)
       /\ Boundary(t, s + 4)
    THEN s + 4 ELSE 0

\* `\b([A-Z]{2,5})\b` at position s: greedy, longest admissible length first
SymbolEndUS(t, s) ==
    LET Ks == {k \in 2..5 : /\ s + k - 1 <= Len(t)
                            /\ AllIn(t, s, s + k - 1, Upper)
                            /\ Boundary(t, s + k)}
    IN  IF Boundary(t, s) /\ Ks # {}
        THEN s + (CHOOSE k \in Ks : \A j \in Ks : k >= j) ELSE 0

\* the symbol part of the holding pattern of one market
SymbolEnd(market, t, s) ==
    IF market = "MY" THEN SymbolEndMY(t, s) ELSE SymbolEndUS(t, s)

\* the whole holding pattern tried at start position s
MatchAt(market, t, s) ==
    LET e == SymbolEnd(market, t, s)
    IN  IF e = 0 THEN NoMatch
        ELSE LET m == TailMatch(t, e)
             IN  IF m.ok
                 THEN [ok |-> TRUE, symbol |-> Slice(t, s, e - 1),
                       shares |-> m.shares, price |-> m.price, next |-> m.next]
                 ELSE NoMatch

\* re.findall: non-overlapping matches, scanning left to right
\* the start positions from pos on at which the holding pattern matches
MatchStarts(market, t, pos) == {s \in pos..Len(t) : MatchAt(market, t, s).ok}

Leftmost(S) == CHOOSE s \in S : \A q \in S : s <= q

Matched(m) == [symbol |-> m.symbol, shares |-> m.shares, price |-> m.price]

RECURSIVE FindAll(_, _, _)
FindAll(market, t, pos) ==
    IF MatchStarts(market, t, pos) = {} THEN <<>>
    ELSE <<Matched(MatchAt(market, t, Leftmost(MatchStarts(market, t, pos))))>>
            \o FindAll(market, t,
                       MatchAt(market, t, Leftmost(MatchStarts(market, t, pos))).next)

(***************************************************************************)
(* float() of the matched groups.                                          *)
(***************************************************************************)
RECURSIVE Remove(_, _)
Remove(s, c) ==
    IF s = <<>> THEN <<>>
    ELSE IF Head(s) = c THEN Remove(Tail(s), c)
         ELSE <<Head(s)>> \o Remove(Tail(s), c)

RECURSIVE DigitsValue(_)
DigitsValue(s) ==
    IF s = <<>> THEN 0
    ELSE 10 * DigitsValue(SubSeq(s, 1, Len(s) - 1)) + DigitValue(s[Len(s)])

Dots(s) == {i \in 1..Len(s) : s[i] = "."}

\* float(s) accepts digits with at most one point and at least one digit
FloatOk(s) ==
    /\ \E i \in 1..Len(s) : s[i] \in Digits
    /\ \A i \in 1..Len(s) : s[i] \in Digits \cup {"."}
    /\ Cardinality(Dots(s)) <= 1

\* float(s) in thousandths; digits past the third decimal are cut
Float(s) ==
    LET dot == IF Dots(s) = {} THEN Len(s) + 1 ELSE CHOOSE i \in Dots(s) : TRUE
        whole == Slice(s, 1, dot - 1)
        frac == Slice(s, dot + 1, Len(s))
        f3 == SubSeq(frac \o <<"0", "0", "0">>, 1, 3)
    IN  DigitsValue(whole) * 1000 + DigitsValue(f3)

(***************************************************************************)
(* _fallback_parse: the heuristic pattern matcher.                         *)
(***************************************************************************)
\* the keywords of balance_patterns, in list order
balance_patterns == <<
    <<"U+4F59", "U+989D">>,
    <<"B", "a", "l", "a", "n", "c", "e">>,
    <<"U+73B0", "U+91D1">>,
    <<"C", "a", "s", "h">> >>

\* re.search(kw + `.*?([\d,]+\.?\d*)`, t): group 1 of the leftmost match
BalanceMatch(t, kw) ==
    LET n == Len(kw)
        AmountStart(e) == {p \in e..Len(t) :
                              t[p] \in Digits \cup {","} /\ NoNewline(t, e, p - 1)}
        Starts == {s \in 1..(Len(t) - n + 1) :
                      SubSeq(t, s, s + n - 1) = kw /\ AmountStart(s + n) # {}}
    IN  IF Starts = {} THEN NoMatch
        ELSE LET s == CHOOSE x \in Starts : \A y \in Starts : x <= y
                 A == AmountStart(s + n)
                 p == CHOOSE x \in A : \A y \in A : x <= y
                 q == RunEnd(t, p, Digits \cup {","})
                 r == IF q + 1 <= Len(t) /\ t[q + 1] = "." THEN q + 1 ELSE q
                 last == IF r + 1 <= Len(t) /\ t[r + 1] \in Digits
                         THEN RunEnd(t, r + 1, Digits) ELSE r
             IN  [ok |-> TRUE, group |-> Slice(t, p, last)]

\* variant: the loop ends at the first pattern that matches, whether or not
\* its number converts
RECURSIVE CashFromFirstMatch(_, _)
CashFromFirstMatch(t, i) ==
    IF i > Len(balance_patterns) THEN 0
    ELSE IF ~BalanceMatch(t, balance_patterns[i]).ok THEN CashFromFirstMatch(t, i + 1)
    ELSE IF FloatOk(Remove(BalanceMatch(t, balance_patterns[i]).group, ","))
    THEN Float(Remove(BalanceMatch(t, balance_patterns[i]).group, ","))
    ELSE 0

\* the loop over balance_patterns from index i on: the first pattern that
\* matches and converts sets cash_balance; 0 when none does
RECURSIVE CashFrom(_, _)
CashFrom(t, i) ==
    IF i > Len(balance_patterns) THEN 0
    ELSE LET m == BalanceMatch(t, balance_patterns[i])
         IN  IF m.ok /\ FloatOk(Remove(m.group, ","))
             THEN Float(Remove(m.group, ","))
             ELSE CashFrom(t, i + 1)

\* one loop over the matches of a holding pattern: a match whose price
\* does not convert is skipped
RECURSIVE Holdings(_, _)
Holdings(matches, exchange) ==
    IF matches = <<>> THEN <<>>
    ELSE LET m == Head(matches)
             rest == Holdings(Tail(matches), exchange)
         IN  IF FloatOk(m.shares) /\ FloatOk(Remove(m.price, ","))
             THEN <<[symbol |-> m.symbol,
                     name |-> m.symbol,
                     shares |-> Float(m.shares) \div 1000,
                     avgPrice |-> Float(Remove(m.price, ",")),
                     currentPrice |-> 0,
                     exchange |-> exchange]>> \o rest
             ELSE rest

MaxUSMatches == 10

FirstN(s, n) == IF Len(s) <= n THEN s ELSE SubSeq(s, 1, n)

FallbackData(t) ==
    [liquid_assets |-> <<>>,
     illiquid_assets |-> <<>>,
     stocks_my |-> Holdings(FindAll("MY", t, 1), "MY"),
     stocks_us |-> Holdings(FirstN(FindAll("US", t, 1), MaxUSMatches), "US"),
     gold |-> <<>>,
     cash_balance |-> CashFrom(t, 1)]

\* variant: an empty extraction is reported as exhaustion of the chain
FallbackResultExhaustion(t) ==
    IF /\ FallbackData(t).stocks_my = <<>>
       /\ FallbackData(t).stocks_us = <<>>
       /\ FallbackData(t).cash_balance = 0
    THEN [success |-> FALSE, error |-> "all extraction methods failed"]
    ELSE [success |-> TRUE,
          data |-> FallbackData(t),
          ai_analysis |-> [extraction_method |-> "Traditional Regex",
                           note |-> "AI unavailable, traditional parsing used"]]

\* variant: the heuristic result carries the label of the provider path
FallbackResultAsAI(t) ==
    [success |-> TRUE,
     data |-> FallbackData(t),
     ai_analysis |-> [extraction_method |-> "AI",
                      note |-> "AI unavailable, traditional parsing used"]]

FallbackResult(t) ==
    [success |-> TRUE,
     data |-> FallbackData(t),
     ai_analysis |-> [extraction_method |-> "Traditional Regex",
                      note |-> "AI unavailable, traditional parsing used"]]

(***************************************************************************)
(* Sample texts.                                                           *)
(***************************************************************************)
TextEmpty == <<>>
TextBlank == <<" ", "\n", "\n">>
TextProse == <<"n", "o", " ", "d", "a", "t", "a">>
TextMY == <<"1", "1", "5", "5", " ", "1", "0", "0", " ", "9", ".", "2", "0">>
TextUS == <<"T", "S", "L", "A", " ", "1", "0", " ", "2", "5", "0", ".", "5">>
TextBalance == <<"B", "a", "l", "a", "n", "c", "e", ":", " ", "R", "M", " ",
                 "5", ",", "0", "0", "0", ".", "0", "0">>
TextZero == <<"0", "0", "0", "0", " ", "0", " ", "1", ".", "5">>
TextOneNumber == <<"1", "1", "5", "5", " ", "1", "0", "0">>
TextBadPrice == <<"1", "1", "5", "5", " ", "7", " ", "1", ".", "2", ".", "3">>
TextTwoLines == <<"1", "1", "5", "5", " ", "2", "\n", "9", ".", "5", "\n",
                  "C", "a", "s", "h", " ", ",", " ", "U+4F59", "U+989D", " ", "7">>

Texts == {TextEmpty, TextBlank, TextProse, TextMY, TextUS, TextBalance,
          TextZero, TextOneNumber, TextBadPrice, TextTwoLines}

TextSheet == <<"=", " ", "S", "h", "e", "e", "t", ":", " ", "a", " ", "=", "\n",
               "T", "S", "L", "A", " ", "3", " ", "1", ",", "2", "0", "0">>
TextSheetBlank == <<"=", " ", "S", "h", "e", "e", "t", ":", " ", "a", " ", "=", "\n",
                    "E", "m", "p", "t", "y", " ", "D", "a", "t", "a", "F", "r",
                    "a", "m", "e">>

ExcelTexts == {TextSheet, TextSheetBlank}

\* str.strip() leaves nothing
IsBlank(t) == \A i \in 1..Len(t) : t[i] \in Whitespace

(***************************************************************************)
(* Provider payloads: the JSON object a provider answers with, as a        *)
(* function from the field names present to their values.                  *)
(***************************************************************************)
Sym1155 == <<"1", "1", "5", "5">>
SymTSLA == <<"T", "S", "L", "A">>

ItemsMY == {[symbol |-> Sym1155, name |-> "Maybank", shares |-> 100, avgPrice |-> 9200],
            [symbol |-> Sym1155, name |-> "Maybank", shares |-> 1, avgPrice |-> 4]}
ItemsUS == {[symbol |-> SymTSLA, name |-> "Tesla", shares |-> 10, avgPrice |-> 250500],
            [symbol |-> SymTSLA, name |-> "Tesla", shares |-> -5, avgPrice |-> -1000]}
ItemsLiquid == {[name |-> "savings", value |-> 4, category |-> "cash"],
                [name |-> "overdraft", value |-> -2500, category |-> "cash"]}
ItemsIlliquid == {[name |-> "EPF", value |-> 4, category |-> "retirement"],
                  [name |-> "KWSP", value |-> 80000000, category |-> "retirement"]}
ItemsGold == {[type |-> "916", weight |-> 2, purchasePrice |-> 300000],
              [type |-> "916", weight |-> 0, purchasePrice |-> 300000]}
CashValues == {5000000, -1000}
ClaimedTotals == {999000}

\* the sequences over S of length at most n
RECURSIVE BSeq(_, _)
BSeq(S, n) ==
    IF n = 0 THEN {<<>>}
    ELSE LET shorter == BSeq(S, n - 1)
         IN  shorter \cup {Append(q, x) : q \in {r \in shorter : Len(r) = n - 1}, x \in S}

\* f with the field k added
With(f, k, v) == [x \in DOMAIN f \cup {k} |-> IF x = k THEN v ELSE f[x]]

WithTotals(P) == P \cup {With(p, "total_assets", t) : p \in P, t \in ClaimedTotals}

PayloadsStocks ==
    {[stocks_my |-> a, stocks_us |-> b] :
        a \in BSeq(ItemsMY, MaxItems), b \in BSeq(ItemsUS, MaxItems)}
PayloadsAssets ==
    {[liquid_assets |-> a, illiquid_assets |-> b] :
        a \in BSeq(ItemsLiquid, MaxItems), b \in BSeq(ItemsIlliquid, MaxItems)}
PayloadsGold ==
    LET G == {[gold |-> g] : g \in BSeq(ItemsGold, MaxItems)}
    IN  G \cup {With(p, "cash_balance", c) : p \in G, c \in CashValues}

Payloads == WithTotals(PayloadsStocks \cup PayloadsAssets \cup PayloadsGold)

(***************************************************************************)
(* What one provider request can come back with.                           *)
(***************************************************************************)
\* outcomes on which _call_*_api returns None
NoResultKinds == {"network", "timeout", "status", "envelope"}

\* status 200 with a text content: what json.loads makes of the extracted text
Contents ==
    {[json |-> "invalid"], [json |-> "nonobject"]}
        \cup {[json |-> "object", payload |-> p] : p \in Payloads}

Outcomes ==
    {[kind |-> k] : k \in NoResultKinds}
        \cup {[kind |-> "content", content |-> c] : c \in Contents}

(***************************************************************************)
(* The text of a provider response, as a sequence of pieces, and what      *)
(* _parse_ai_response cuts out of it before json.loads.                    *)
(*   prose       words without braces or backticks, not beginning "json"   *)
(*   ws          white space                                               *)
(*   lbrace      a brace "{" written in the prose                          *)
(*   rbrace      a brace "}" written in the prose                          *)
(*   fence_json  the three backticks followed by json                      *)
(*   fence       three backticks                                           *)
(*   array       the text of a JSON array                                  *)
(*   object      the text of a well-formed JSON object, payload its value  *)
(***************************************************************************)
MaxPieces == 3

Piece(k) == [piece |-> k]
ObjectPiece(p) == [piece |-> "object", payload |-> p]

PlainPieces ==
    {Piece(k) : k \in {"prose", "ws", "lbrace", "rbrace", "fence_json", "fence", "array"}}

\* the piece begins with three backticks
OpensFence(x) == x.piece \in {"fence_json", "fence"}
\* the piece begins with "{", ends with "}"
BeginsBrace(x) == x.piece \in {"lbrace", "object"}
EndsBrace(x) == x.piece \in {"rbrace", "object"}

\* str.strip() and the two \s* of the fence pattern, on pieces
RECURSIVE StripLeft(_)
StripLeft(t) ==
    IF t # <<>> /\ Head(t).piece = "ws" THEN StripLeft(Tail(t)) ELSE t

RECURSIVE StripRight(_)
StripRight(t) ==
    IF t # <<>> /\ t[Len(t)].piece = "ws"
    THEN StripRight(SubSeq(t, 1, Len(t) - 1)) ELSE t

Strip(t) == StripRight(StripLeft(t))

\* re.search(r'```json\s*(.*?)\s*```', ai_response, re.DOTALL): the leftmost
\* opening that has a closing after it, the group up to the nearest closing
FenceOpenings(t) ==
    {i \in DOMAIN t : t[i].piece = "fence_json" /\ \E j \in DOMAIN t : j > i /\ OpensFence(t[j])}

FenceGroup(t) ==
    LET i == CHOOSE i \in FenceOpenings(t) : \A k \in FenceOpenings(t) : i <= k
        j == CHOOSE j \in DOMAIN t :
                /\ j > i /\ OpensFence(t[j])
                /\ \A k \in DOMAIN t : (k > i /\ OpensFence(t[k])) => j <= k
    IN  Strip(SubSeq(t, i + 1, j - 1))

\* re.search(r'\{.*\}', ai_response, re.DOTALL): from the first "{" to the
\* last "}" of the whole text
BraceSpan(t) ==
    LET i == CHOOSE i \in DOMAIN t :
                BeginsBrace(t[i]) /\ \A k \in DOMAIN t : BeginsBrace(t[k]) => i <= k
        j == CHOOSE j \in DOMAIN t :
                EndsBrace(t[j]) /\ \A k \in DOMAIN t : EndsBrace(t[k]) => k <= j
    IN  SubSeq(t, i, j)

HasBraceSpan(t) ==
    \E i, j \in DOMAIN t :
        /\ BeginsBrace(t[i]) /\ EndsBrace(t[j])
        /\ i <= j
        /\ i = j => t[i].piece = "object"

\* json_str of _parse_ai_response
json_str(ai_response) ==
    IF FenceOpenings(ai_response) # {} THEN FenceGroup(ai_response)
    ELSE IF HasBraceSpan(ai_response) THEN BraceSpan(ai_response)
    ELSE ai_response

\* json.loads(json_str) followed by the first data.get: a JSON text is white
\* space around one value; an array has no get, anything else does not parse
json_loads(t) ==
    LET v == Strip(t)
    IN  IF Len(v) = 1 /\ v[1].piece = "object"
        THEN [json |-> "object", payload |-> v[1].payload]
        ELSE IF /\ Len(v) >= 2
                /\ v[1].piece = "lbrace"
                /\ v[Len(v)].piece = "rbrace"
                /\ \A i \in 2..(Len(v) - 1) : v[i].piece = "ws"
        THEN [json |-> "object", payload |-> <<>>]
        ELSE IF Len(v) = 1 /\ v[1].piece = "array"
        THEN [json |-> "nonobject"]
        ELSE [json |-> "invalid"]

\* the content of a response given as text
Decode(ai_response) == With(json_loads(json_str(ai_response)), "text", ai_response)

(***************************************************************************)
(* Payloads a provider is free to answer with: holdings filed under either *)
(* list, leaves that are JSON strings, fields missing, fields the schema   *)
(* does not know.  A leaf that is a JSON string is written in the field    *)
(* text of its item, next to a 0 in the place of the number, because a     *)
(* field cannot hold a number in one item and a string in another.         *)
(***************************************************************************)
SymMixed == <<"a", "b", "c", "1", "2", "3">>
Text12k == <<"1", "2", "k">>

StocksWide ==
    {[symbol |-> Sym1155, name |-> "Maybank", shares |-> 100, avgPrice |-> 9200],
     [symbol |-> SymTSLA, name |-> "Tesla", shares |-> 10, avgPrice |-> 250500],
     [symbol |-> SymMixed, name |-> "abc123", shares |-> 10, avgPrice |-> 1500],
     [symbol |-> Sym1155, name |-> "Maybank", shares |-> 0, avgPrice |-> 9200,
      text |-> [shares |-> Text12k]]}

AssetsWide ==
    {[name |-> "savings", value |-> 4, category |-> "cash"],
     [name |-> "car", value |-> 0, category |-> "vehicle",
      text |-> [value |-> Text12k]]}

ExpectedFields ==
    {"liquid_assets", "illiquid_assets", "stocks_my", "stocks_us", "gold",
     "cash_balance", "total_assets"}
ExtraFields == {"broker", "confidence"}

\* one value for each field name a payload can carry
SampleValue(k) ==
    CASE k = "liquid_assets" -> <<[name |-> "savings", value |-> 4, category |-> "cash"]>>
      [] k = "illiquid_assets" -> <<[name |-> "EPF", value |-> 4, category |-> "retirement"]>>
      [] k = "stocks_my" -> <<[symbol |-> Sym1155, name |-> "Maybank", shares |-> 100, avgPrice |-> 9200]>>
      [] k = "stocks_us" -> <<[symbol |-> SymTSLA, name |-> "Tesla", shares |-> 10, avgPrice |-> 250500]>>
      [] k = "gold" -> <<[type |-> "916", weight |-> 2, purchasePrice |-> 300000]>>
      [] k = "cash_balance" -> 5000000
      [] k = "total_assets" -> 999000
      [] k = "broker" -> "moomoo"
      [] k = "confidence" -> 90

PayloadsFields ==
    {[k \in S |-> SampleValue(k)] : S \in SUBSET (ExpectedFields \cup ExtraFields)}

PayloadsWide ==
    {[stocks_my |-> a, stocks_us |-> b] :
        a \in BSeq(StocksWide, MaxItems), b \in BSeq(StocksWide, MaxItems)}
      \cup {[liquid_assets |-> a] : a \in BSeq(AssetsWide, MaxItems)}
      \cup PayloadsFields

PayloadCash == [cash_balance |-> 5000000]

\* the texts a provider answers with: one object in every surrounding of
\* at most MaxPieces pieces, and every payload as the whole text
ResponsesWide ==
    BSeq(PlainPieces \cup {ObjectPiece(PayloadCash)}, MaxPieces)
        \cup {<<ObjectPiece(p)>> : p \in PayloadsWide}

OutcomesWide ==
    {[kind |-> "network"]}
        \cup {[kind |-> "content", content |-> Decode(r)] : r \in ResponsesWide}

(***************************************************************************)
(* _parse_ai_response and the provider calls.                              *)
(***************************************************************************)
\* variant: the payload is handed on as the data, field for field
_parse_ai_response_verbatim(content) ==
    IF content.json = "object"
    THEN [success |-> TRUE,
          data |-> content.payload,
          ai_analysis |-> [raw_response |-> content,
                           extraction_method |-> "AI"]]
    ELSE IF content.json = "invalid"
    THEN [success |-> FALSE,
          error |-> "AI response format error",
          raw_response |-> content]
    ELSE [success |-> FALSE,
          error |-> "error while processing AI response"]

\* The timestamp field of the results is left out: it is the wall clock.
\* raw_response stands for ai_response[:500].
_parse_ai_response(content) ==
    IF content.json = "object"
    THEN LET data == content.payload
         IN  [success |-> TRUE,
              data |-> [liquid_assets |-> Get(data, "liquid_assets", <<>>),
                        illiquid_assets |-> Get(data, "illiquid_assets", <<>>),
                        stocks_my |-> Get(data, "stocks_my", <<>>),
                        stocks_us |-> Get(data, "stocks_us", <<>>),
                        gold |-> Get(data, "gold", <<>>),
                        cash_balance |-> Get(data, "cash_balance", 0),
                        total_assets |-> Get(data, "total_assets", 0)],
              ai_analysis |-> [raw_response |-> content,
                               extraction_method |-> "AI"]]
    ELSE IF content.json = "invalid"
    THEN [success |-> FALSE,
          error |-> "AI response format error",
          raw_response |-> content]
    ELSE [success |-> FALSE,
          error |-> "error while processing AI response"]

\* variant: a non-200 status is handed back as an error result
_call_api_status_error(outcome) ==
    IF outcome.kind = "content" THEN _parse_ai_response(outcome.content)
    ELSE IF outcome.kind = "status"
    THEN [success |-> FALSE, error |-> "API error status"]
    ELSE None

\* _call_anthropic_api, _call_groq_api, _call_openai_api: the same code but
\* for the endpoint, the headers and the place of the text in the body
_call_api(outcome) ==
    IF outcome.kind = "content" THEN _parse_ai_response(outcome.content)
    ELSE None

\* how an outcome is named in the log of requests
Tag(outcome) ==
    IF outcome.kind = "content" THEN outcome.content.json ELSE outcome.kind

\* `if result:` on a dict or None
Truthy(r) == r # None

(***************************************************************************)
(* generate_asset_report.                                                  *)
(***************************************************************************)
\* an exception leaving a function
Raised(kind) == [raised |-> kind]

\* the leaf k of the item is a JSON string
IsText(item, k) == "text" \in DOMAIN item /\ k \in DOMAIN item.text

\* sum() of the report adds a string to a number: TypeError
Unsummable(data) ==
    \/ \E k \in {"liquid_assets", "illiquid_assets"} :
          \E i \in DOMAIN Get(data, k, <<>>) : IsText(data[k][i], "value")
    \/ \E k \in {"stocks_my", "stocks_us"} :
          \E i \in DOMAIN Get(data, k, <<>>) :
              IsText(data[k][i], "shares") \/ IsText(data[k][i], "avgPrice")

RECURSIVE SumValues(_)
SumValues(assets) ==
    IF assets = <<>> THEN 0
    ELSE Get(Head(assets), "value", 0) + SumValues(Tail(assets))

RECURSIVE SumHoldings(_)
SumHoldings(stocks) ==
    IF stocks = <<>> THEN 0
    ELSE Get(Head(stocks), "shares", 0) * Get(Head(stocks), "avgPrice", 0)
            + SumHoldings(Tail(stocks))

\* variant: a total claimed by the payload is reported instead of the sum
generate_asset_report_trusting(parsed_data) ==
    IF ~parsed_data.success THEN None
    ELSE IF Unsummable(parsed_data.data) THEN Raised("TypeError")
    ELSE LET data == parsed_data.data
             total_liquid == SumValues(Get(data, "liquid_assets", <<>>))
             total_illiquid == SumValues(Get(data, "illiquid_assets", <<>>))
             total_stocks_my == SumHoldings(Get(data, "stocks_my", <<>>))
             total_stocks_us == SumHoldings(Get(data, "stocks_us", <<>>))
             total_assets == IF Get(data, "total_assets", 0) # 0
                             THEN data.total_assets
                             ELSE total_liquid + total_illiquid
                                     + total_stocks_my + total_stocks_us
         IN  [summary |-> [total_assets |-> Round2(total_assets),
                           liquid_assets |-> Round2(total_liquid),
                           illiquid_assets |-> Round2(total_illiquid),
                           stock_holdings_my |-> Round2(total_stocks_my),
                           stock_holdings_us |-> Round2(total_stocks_us),
                           cash_balance |-> Get(data, "cash_balance", 0)],
              breakdown |-> [liquid_count |-> Len(Get(data, "liquid_assets", <<>>)),
                             illiquid_count |-> Len(Get(data, "illiquid_assets", <<>>)),
                             stocks_my_count |-> Len(Get(data, "stocks_my", <<>>)),
                             stocks_us_count |-> Len(Get(data, "stocks_us", <<>>))]]

generate_asset_report(parsed_data) ==
    IF ~parsed_data.success THEN None
    ELSE IF Unsummable(parsed_data.data) THEN Raised("TypeError")
    ELSE LET data == parsed_data.data
             total_liquid == SumValues(Get(data, "liquid_assets", <<>>))
             total_illiquid == SumValues(Get(data, "illiquid_assets", <<>>))
             total_stocks_my == SumHoldings(Get(data, "stocks_my", <<>>))
             total_stocks_us == SumHoldings(Get(data, "stocks_us", <<>>))
             total_assets == total_liquid + total_illiquid
                                + total_stocks_my + total_stocks_us
         IN  [summary |-> [total_assets |-> Round2(total_assets),
                           liquid_assets |-> Round2(total_liquid),
                           illiquid_assets |-> Round2(total_illiquid),
                           stock_holdings_my |-> Round2(total_stocks_my),
                           stock_holdings_us |-> Round2(total_stocks_us),
                           cash_balance |-> Get(data, "cash_balance", 0)],
              breakdown |-> [liquid_count |-> Len(Get(data, "liquid_assets", <<>>)),
                             illiquid_count |-> Len(Get(data, "illiquid_assets", <<>>)),
                             stocks_my_count |-> Len(Get(data, "stocks_my", <<>>)),
                             stocks_us_count |-> Len(Get(data, "stocks_us", <<>>))]]

\* variant: the total is stored in the snapshot the call was given
generate_asset_report_call_storing(parsed_data) ==
    [given |-> parsed_data,
     left |-> IF parsed_data.success /\ "summary" \in DOMAIN generate_asset_report(parsed_data)
              THEN [parsed_data EXCEPT
                      !.data = With(@, "total_assets",
                                    generate_asset_report(parsed_data).summary.total_assets)]
              ELSE parsed_data,
     returned |-> generate_asset_report(parsed_data)]

\* one call of generate_asset_report: parsed_data is read with get and
\* subscripts only, no item of it is assigned to
generate_asset_report_call(parsed_data) ==
    [given |-> parsed_data,
     left |-> parsed_data,
     returned |-> generate_asset_report(parsed_data)]

(***************************************************************************)
(* The run: parse_file_with_ai, then the handler's report.                 *)
(***************************************************************************)
Providers == <<"anthropic", "groq", "openai">>

ProviderSet == {Providers[i] : i \in 1..Len(Providers)}

Rank(p) == CHOOSE i \in 1..Len(Providers) : Providers[i] = p

\* variant: the blocks of the last two providers are swapped
NextStageSwapped(p) ==
    IF p = "anthropic" THEN "openai"
    ELSE IF p = "openai" THEN "groq"
    ELSE "fallback"

\* where _analyze_with_ai goes after the `if` of provider p
NextStage(p) ==
    IF Rank(p) < Len(Providers) THEN Providers[Rank(p) + 1] ELSE "fallback"

Docs ==
    {[file_type |-> "pdf", readable |-> TRUE, text |-> t] : t \in Texts}
        \cup {[file_type |-> "excel", readable |-> TRUE, text |-> t] : t \in ExcelTexts}
        \cup {[file_type |-> f, readable |-> FALSE, text |-> <<>>] :
                 f \in {"pdf", "excel", "image", "csv"}}

Init ==
    /\ keys \in [ProviderSet -> BOOLEAN]
    /\ doc \in Docs
    /\ pc = "start"
    /\ calls = <<>>
    /\ response = None
    /\ fallbackRan = FALSE
    /\ result = None
    /\ report = None
    /\ HostIdle

Return(r) ==
    /\ result' = r
    /\ pc' = "returned"

\* _parse_excel_with_ai: the text of every sheet goes to _analyze_with_ai
ParseExcel ==
    /\ pc = "start"
    /\ doc.file_type \in {"xlsx", "xls", "excel"}
    /\ IF doc.readable
       THEN pc' = Providers[1] /\ UNCHANGED result
       ELSE Return([success |-> FALSE, error |-> "Excel parsing failed"])
    /\ UNCHANGED <<keys, doc, calls, response, fallbackRan, report, host>>

\* variant: the text of the PDF is analysed without the check for empty text
ParsePdfNoTextCheck ==
    /\ pc = "start"
    /\ doc.file_type = "pdf"
    /\ IF ~doc.readable
       THEN Return([success |-> FALSE, error |-> "PDF library not installed"])
       ELSE pc' = Providers[1] /\ UNCHANGED result
    /\ UNCHANGED <<keys, doc, calls, response, fallbackRan, report, host>>

\* _parse_pdf_with_ai
ParsePdf ==
    /\ pc = "start"
    /\ doc.file_type = "pdf"
    /\ IF ~doc.readable
       THEN Return([success |-> FALSE, error |-> "PDF library not installed"])
       ELSE IF IsBlank(doc.text)
       THEN Return([success |-> FALSE, error |-> "no text content found in PDF"])
       ELSE pc' = Providers[1] /\ UNCHANGED result
    /\ UNCHANGED <<keys, doc, calls, response, fallbackRan, report, host>>

\* _parse_image_with_ai
ParseImage ==
    /\ pc = "start"
    /\ doc.file_type \in {"jpg", "jpeg", "png", "image"}
    /\ Return([success |-> FALSE, error |-> "image parsing under development"])
    /\ UNCHANGED <<keys, doc, calls, response, fallbackRan, report, host>>

\* the else branch of parse_file_with_ai
Unsupported ==
    /\ pc = "start"
    /\ doc.file_type \notin {"xlsx", "xls", "excel", "pdf", "jpg", "jpeg", "png", "image"}
    /\ Return([success |-> FALSE, error |-> "unsupported file format"])
    /\ UNCHANGED <<keys, doc, calls, response, fallbackRan, report, host>>

\* the number of characters of the text a prompt embeds: text_content[:4000]
PromptBudget == 4000

\* the file_type _parse_excel_with_ai and _parse_pdf_with_ai pass on
AnalysedAs(d) == IF d.file_type = "pdf" THEN "pdf" ELSE "excel"

\* variant: the whole text is embedded
_build_analysis_prompt_whole(text_content, file_type) ==
    [file_type |-> file_type, text |-> text_content]

\* _build_analysis_prompt: the two parts of the prompt that are not the
\* fixed template
_build_analysis_prompt(text_content, file_type) ==
    [file_type |-> file_type, text |-> FirstN(text_content, PromptBudget)]

\* variant: a provider without a credential ends the run with an error
TryFromStrict(p, O) ==
    /\ pc = p
    /\ \/ /\ keys[p]
          /\ \E outcome \in O :
                LET r == _call_api(outcome)
                IN  /\ calls' = Append(calls,
                            [provider |-> p,
                             prompt |-> _build_analysis_prompt(doc.text, AnalysedAs(doc)),
                             kind |-> Tag(outcome),
                             none |-> (r = None)])
                    /\ response' = IF outcome.kind = "content"
                                   THEN outcome.content ELSE response
                    /\ IF Truthy(r)
                       THEN Return(r)
                       ELSE pc' = NextStage(p) /\ UNCHANGED result
       \/ /\ ~keys[p]
          /\ Return([success |-> FALSE, error |-> "provider not configured"])
          /\ UNCHANGED <<calls, response>>
    /\ UNCHANGED <<keys, doc, fallbackRan, report, host>>

\* one `if self.<p>_api_key:` block of _analyze_with_ai, the provider
\* answering with one of the outcomes O
TryFrom(p, O) ==
    /\ pc = p
    /\ \/ /\ keys[p]
          /\ \E outcome \in O :
                LET r == _call_api(outcome)
                IN  /\ calls' = Append(calls,
                            [provider |-> p,
                             prompt |-> _build_analysis_prompt(doc.text, AnalysedAs(doc)),
                             kind |-> Tag(outcome),
                             none |-> (r = None)])
                    /\ response' = IF outcome.kind = "content"
                                   THEN outcome.content ELSE response
                    /\ IF Truthy(r)
                       THEN Return(r)
                       ELSE pc' = NextStage(p) /\ UNCHANGED result
       \/ /\ ~keys[p]
          /\ pc' = NextStage(p)
          /\ UNCHANGED <<calls, response, result>>
    /\ UNCHANGED <<keys, doc, fallbackRan, report, host>>

Try(p) == TryFrom(p, Outcomes)

TryAnthropic == Try("anthropic")

TryGroq == Try("groq")

TryOpenAI == Try("openai")

\* the last line of _analyze_with_ai
Fallback ==
    /\ pc = "fallback"
    /\ fallbackRan' = TRUE
    /\ Return(FallbackResult(doc.text))
    /\ UNCHANGED <<keys, doc, calls, response, report, host>>

\* parse_statement_ai after parse_file_with_ai has returned
Respond ==
    /\ pc = "returned"
    /\ report' = IF result.success THEN generate_asset_report(result) ELSE None
    /\ pc' = "done"
    /\ UNCHANGED <<keys, doc, calls, response, fallbackRan, result, host>>

Next ==
    \/ ParseExcel
    \/ ParsePdf
    \/ ParseImage
    \/ Unsupported
    \/ TryAnthropic
    \/ TryGroq
    \/ TryOpenAI
    \/ Fallback
    \/ Respond

Spec == Init /\ [][Next]_vars

(***************************************************************************)
(* The same pipeline with the providers answering from OutcomesWide, for   *)
(* one readable PDF and a credential for the first or for the last         *)
(* provider only.                                                          *)
(***************************************************************************)
InitResp ==
    /\ keys \in {[p \in ProviderSet |-> p = q] : q \in {"anthropic", "openai"}}
    /\ doc = [file_type |-> "pdf", readable |-> TRUE, text |-> TextMY]
    /\ pc = "start"
    /\ calls = <<>>
    /\ response = None
    /\ fallbackRan = FALSE
    /\ result = None
    /\ report = None
    /\ HostIdle

TryWide(p) == TryFrom(p, OutcomesWide)

NextResp ==
    \/ ParsePdf
    \/ TryWide("anthropic")
    \/ TryWide("groq")
    \/ TryWide("openai")
    \/ Fallback
    \/ Respond

SpecResp == InitResp /\ [][NextResp]_vars

(***************************************************************************)
(* The same pipeline for documents whose text is about as long as, and     *)
(* longer than, the text a prompt embeds.                                  *)
(***************************************************************************)
\* n characters "x"
Xs(n) == SubSeq([i \in 1..n |-> "x"], 1, n)

\* text t followed by a line of "x", n characters in all
Padded(t, n) == t \o <<"\n">> \o Xs(n - Len(t) - 1)

\* text t after a line of "x", n characters in all
PaddedBefore(t, n) == Xs(n - Len(t) - 1) \o <<"\n">> \o t

LongLengths == {PromptBudget - 1, PromptBudget, PromptBudget + 1, PromptBudget + 2,
                PromptBudget + PromptBudget}

LongTexts ==
    {Padded(t, n) : t \in {TextMY, TextBalance}, n \in LongLengths}
        \cup {PaddedBefore(TextUS, n) : n \in LongLengths}

DocsLong ==
    {[file_type |-> f, readable |-> TRUE, text |-> t] :
        f \in {"pdf", "xlsx"}, t \in LongTexts \cup {TextMY}}

InitLong ==
    /\ keys \in [ProviderSet -> BOOLEAN]
    /\ doc \in DocsLong
    /\ pc = "start"
    /\ calls = <<>>
    /\ response = None
    /\ fallbackRan = FALSE
    /\ result = None
    /\ report = None
    /\ HostIdle

OutcomesFew ==
    {[kind |-> "timeout"],
     [kind |-> "content", content |-> [json |-> "invalid"]],
     [kind |-> "content", content |-> [json |-> "object", payload |-> PayloadCash]]}

TryFew(p) == TryFrom(p, OutcomesFew)

NextLong ==
    \/ ParseExcel
    \/ ParsePdf
    \/ TryFew("anthropic")
    \/ TryFew("groq")
    \/ TryFew("openai")
    \/ Fallback
    \/ Respond

SpecLong == InitLong /\ [][NextLong]_vars

(***************************************************************************)
(* The same pipeline for documents whose text names balances.              *)
(***************************************************************************)
KwYue == <<"U+4F59", "U+989D">>
KwXianjin == <<"U+73B0", "U+91D1">>

TextsCash ==
    {TextBalance,
     <<"C", "a", "s", "h", " ", "7", " ">> \o KwYue \o <<" ", "9">>,
     <<"B", "a", "l", "a", "n", "c", "e", " ", ",", " ", "C", "a", "s", "h", " ", "7">>,
     <<"C", "a", "s", "h", " ", "3", "\n", "B", "a", "l", "a", "n", "c", "e", " ", "4">>,
     KwXianjin \o <<" ", "1", " ", "C", "a", "s", "h", " ", "2">>,
     <<"b", "a", "l", "a", "n", "c", "e", " ", "5">>,
     <<"B", "a", "l", "a", "n", "c", "e", ":", "\n", "5">>,
     <<"B", "a", "l", "a", "n", "c", "e", " ", ",", " ">> \o KwYue \o <<" ", ",">>,
     <<"B", "a", "l", "a", "n", "c", "e", " ", "1", ".", "5", ".", "2">>,
     KwYue \o <<",", " ", "C", "a", "s", "h", " ", "1", ",", "2", "0", "0", ".", "5", "0">>,
     TextProse}

DocsCash ==
    {[file_type |-> f, readable |-> TRUE, text |-> t] :
        f \in {"pdf", "xls"}, t \in TextsCash}

InitCash ==
    /\ keys \in [ProviderSet -> BOOLEAN]
    /\ doc \in DocsCash
    /\ pc = "start"
    /\ calls = <<>>
    /\ response = None
    /\ fallbackRan = FALSE
    /\ result = None
    /\ report = None
    /\ HostIdle

SpecCash == InitCash /\ [][NextLong]_vars

(***************************************************************************)
(* generate_asset_report called again and again on the snapshot the        *)
(* caller holds.                                                           *)
(***************************************************************************)
MaxCalls == 2

\* the results of the two extraction paths, successes and failures
Snapshots ==
    {_parse_ai_response(c) : c \in Contents} \cup {FallbackResult(t) : t \in Texts}

InitReport ==
    /\ keys = [p \in ProviderSet |-> FALSE]
    /\ doc = None
    /\ pc = "snapshot"
    /\ calls = <<>>
    /\ response = None
    /\ fallbackRan = FALSE
    /\ result \in Snapshots
    /\ report = None
    /\ HostIdle

\* what a call leaves behind: the snapshot as it is now, the value returned
Called(c) ==
    /\ reportCalls' = Append(reportCalls, c)
    /\ result' = c.left
    /\ report' = c.returned

Generate ==
    /\ pc = "snapshot"
    /\ Len(reportCalls) < MaxCalls
    /\ Called(generate_asset_report_call(result))
    /\ UNCHANGED <<keys, doc, pc, calls, response, fallbackRan, cache, now, tmp>>

NextReport == Generate

SpecReport == InitReport /\ [][NextReport]_vars

(***************************************************************************)
(* Vocabulary of the properties.                                           *)
(***************************************************************************)
Returned == pc \in {"returned", "done"}

Configured == {p \in ProviderSet : keys[p]}

LaterConfigured(p) == {q \in Configured : Rank(q) > Rank(p)}

FirstOf(S) == CHOOSE p \in S : \A q \in S : Rank(p) <= Rank(q)

\* provider q was requested and its call returned None
FailedBefore(q, i) ==
    \E k \in 1..(i - 1) : calls[k].provider = q /\ calls[k].none

\* every configured provider was requested and returned None
AllConfiguredFailed ==
    \A q \in Configured : FailedBefore(q, Len(calls) + 1)

\* the heuristic matcher finds no candidate in the text
ZeroCandidates(t) ==
    /\ FindAll("MY", t, 1) = <<>>
    /\ FindAll("US", t, 1) = <<>>
    /\ \A i \in 1..Len(balance_patterns) : ~BalanceMatch(t, balance_patterns[i]).ok

\* the heuristic fallback extracted no holding and no balance
ExtractsNothing(data) ==
    /\ data.stocks_my = <<>>
    /\ data.stocks_us = <<>>
    /\ data.cash_balance = 0

(***************************************************************************)
(* C1: a provider response in which no JSON parses counts as a failed      *)
(* attempt: the next configured provider is requested (or the heuristic    *)
(* fallback runs when none remains), and the caller does not receive that  *)
(* provider's malformed-response error while a later provider is           *)
(* available.                                                              *)
(***************************************************************************)
C1_MalformedResponseAdvances ==
    \A i \in DOMAIN calls :
        (calls[i].kind = "invalid" /\ Returned) =>
            LET later == LaterConfigured(calls[i].provider)
            IN  IF later # {}
                THEN /\ i < Len(calls)
                     /\ calls[i + 1].provider = FirstOf(later)
                     /\ result # _parse_ai_response([json |-> "invalid"])
                ELSE fallbackRan

(***************************************************************************)
(* C2: a provider call that fails with a network error, a timeout or a     *)
(* non-200 status yields no result; the chain goes on to the next          *)
(* configured provider (to the fallback when none is left); and the        *)
(* returned result is the heuristic result of the text or the parse of the *)
(* last content received, so it carries nothing of the failed call.        *)
(***************************************************************************)
C2_TransportFailureAdvances ==
    \A i \in DOMAIN calls :
        calls[i].kind \in {"network", "timeout", "status"} =>
            LET p == calls[i].provider
                later == LaterConfigured(p)
            IN  /\ calls[i].none
                /\ IF i < Len(calls)
                   THEN later # {} /\ calls[i + 1].provider = FirstOf(later)
                   ELSE IF later # {}
                   THEN /\ pc \in ProviderSet
                        /\ Rank(p) < Rank(pc)
                        /\ Rank(pc) <= Rank(FirstOf(later))
                        /\ result = None
                   ELSE \/ pc \in ProviderSet /\ Rank(p) < Rank(pc) /\ result = None
                        \/ pc = "fallback" /\ result = None
                        \/ Returned /\ fallbackRan
                /\ Returned =>
                      result = IF fallbackRan THEN FallbackResult(doc.text)
                               ELSE _parse_ai_response(response)

C2_Witness ==
    /\ pc = "done"
    /\ Len(calls) = 3
    /\ calls[1].kind = "network"
    /\ calls[2].kind = "timeout"
    /\ calls[3].kind = "status"
    /\ fallbackRan

(***************************************************************************)
(* C3: requests go out one at a time in the order Anthropic, Groq, OpenAI, *)
(* each provider at most once and only after every earlier configured     *)
(* provider returned nothing; a valid response ends the chain and is the   *)
(* result; the heuristic fallback runs only after every configured         *)
(* provider was requested and returned nothing.                            *)
(***************************************************************************)
C3_SequentialChain ==
    /\ \A i, j \in DOMAIN calls :
          i < j => Rank(calls[i].provider) < Rank(calls[j].provider)
    /\ \A i \in DOMAIN calls :
          /\ keys[calls[i].provider]
          /\ \A q \in Configured :
                Rank(q) < Rank(calls[i].provider) => FailedBefore(q, i)
    /\ \A i \in DOMAIN calls :
          calls[i].kind = "object" =>
              /\ i = Len(calls)
              /\ Returned
              /\ ~fallbackRan
              /\ result = _parse_ai_response(response)
              /\ result.success
    /\ (pc = "fallback" \/ fallbackRan) => AllConfiguredFailed

C3_Witness ==
    /\ pc = "done"
    /\ Len(calls) = 3
    /\ calls[3].kind = "object"
    /\ result.success

(***************************************************************************)
(* C4 as stated: when every configured provider returned nothing (or none  *)
(* is configured) and the heuristic fallback extracts no holding and no    *)
(* balance, parse_file_with_ai reports success false with an error.        *)
(***************************************************************************)
C4_ExhaustionReportsFailure ==
    (Returned /\ fallbackRan /\ ExtractsNothing(FallbackData(doc.text))) =>
        /\ ~result.success
        /\ "error" \in DOMAIN result

(***************************************************************************)
(* C4 as amended: in that case parse_file_with_ai reports success true     *)
(* with no error field, and marks the result as heuristic: the method is   *)
(* 'Traditional Regex' and a note says that no provider was available.     *)
(***************************************************************************)
C4_ExhaustionReportsFlaggedSuccess ==
    (Returned /\ fallbackRan /\ ExtractsNothing(FallbackData(doc.text))) =>
        /\ result.success
        /\ "error" \notin DOMAIN result
        /\ "data" \in DOMAIN result
        /\ result.ai_analysis.extraction_method = "Traditional Regex"
        /\ "note" \in DOMAIN result.ai_analysis

C4_Witness ==
    /\ Returned
    /\ fallbackRan
    /\ Configured = ProviderSet
    /\ AllConfiguredFailed
    /\ ExtractsNothing(FallbackData(doc.text))
    /\ result.success

(***************************************************************************)
(* C5: when the heuristic matcher finds no candidate in the text, with no  *)
(* provider configured or with every configured provider having returned   *)
(* nothing, the result is a success whose snapshot has every sequence      *)
(* empty and cash_balance 0, and every total of its report is zero.        *)
(***************************************************************************)
C5_EmptySnapshotSuccess ==
    (Returned /\ fallbackRan /\ ZeroCandidates(doc.text)) =>
        /\ AllConfiguredFailed
        /\ result.success
        /\ result.data = [liquid_assets |-> <<>>, illiquid_assets |-> <<>>,
                          stocks_my |-> <<>>, stocks_us |-> <<>>,
                          gold |-> <<>>, cash_balance |-> 0]
        /\ pc = "done" =>
              /\ \A f \in DOMAIN report.summary : report.summary[f] = 0
              /\ \A f \in DOMAIN report.breakdown : report.breakdown[f] = 0

C5_Witness ==
    /\ pc = "done"
    /\ Configured = {}
    /\ calls = <<>>
    /\ fallbackRan
    /\ ZeroCandidates(doc.text)
    /\ report.summary.total_assets = 0

(***************************************************************************)
(* C6: every success result names its extraction method: 'AI' exactly when *)
(* the data is the normalized payload of a provider response, and          *)
(* 'Traditional Regex' exactly when it is the output of the heuristic      *)
(* fallback.                                                               *)
(***************************************************************************)
FromProvider ==
    /\ ~fallbackRan
    /\ calls # <<>>
    /\ calls[Len(calls)].kind = "object"
    /\ result.data = _parse_ai_response(response).data

FromHeuristic ==
    /\ fallbackRan
    /\ result.data = FallbackData(doc.text)

C6_MethodNamesSource ==
    (Returned /\ result.success) =>
        /\ "ai_analysis" \in DOMAIN result
        /\ "extraction_method" \in DOMAIN result.ai_analysis
        /\ result.ai_analysis.extraction_method \in {"AI", "Traditional Regex"}
        /\ (result.ai_analysis.extraction_method = "AI") <=> FromProvider
        /\ (result.ai_analysis.extraction_method = "Traditional Regex") <=> FromHeuristic

C6_Witness ==
    /\ Returned
    /\ result.success
    /\ fallbackRan
    /\ calls # <<>>
    /\ result.data.stocks_my # <<>>
    /\ result.ai_analysis.extraction_method = "Traditional Regex"

(***************************************************************************)
(* C7: the reported grand total is the value of the holdings of both       *)
(* markets plus the liquid values plus cash_balance plus the illiquid      *)
(* values plus weight x unit cost of the metal lots.                       *)
(***************************************************************************)
RECURSIVE SumMetal(_)
SumMetal(lots) ==
    IF lots = <<>> THEN 0
    ELSE Head(lots).weight * Head(lots).purchasePrice + SumMetal(Tail(lots))

GrandTotal(data) ==
    SumHoldings(data.stocks_my) + SumHoldings(data.stocks_us)
        + SumValues(data.liquid_assets) + data.cash_balance
        + SumValues(data.illiquid_assets) + SumMetal(data.gold)

C7_GrandTotalCoversEveryCategory ==
    (pc = "done" /\ result.success) =>
        report.summary.total_assets = Round2(GrandTotal(result.data))

(***************************************************************************)
(* C8: in every summary the grand total equals the sum of the category     *)
(* totals reported in the same summary.                                    *)
(***************************************************************************)
C8_TotalIsSumOfReportedParts ==
    (pc = "done" /\ result.success) =>
        report.summary.total_assets =
            report.summary.stock_holdings_my + report.summary.stock_holdings_us
                + report.summary.liquid_assets + report.summary.illiquid_assets

(***************************************************************************)
(* C9: the summary depends on the line items only: the payload received,   *)
(* with the total it claims replaced by any other or left out, gives the   *)
(* summary that was reported.                                              *)
(***************************************************************************)
OtherTotals == ClaimedTotals \cup {0, 1000, 3425000}

Without(f, k) == [x \in DOMAIN f \ {k} |-> f[x]]

SummaryOf(payload) ==
    generate_asset_report(_parse_ai_response([json |-> "object",
                                              payload |-> payload])).summary

C9_SummaryIgnoresClaimedTotal ==
    (pc = "done" /\ result.success /\ ~fallbackRan) =>
        /\ \A t \in OtherTotals :
              SummaryOf(With(response.payload, "total_assets", t)) = report.summary
        /\ SummaryOf(Without(response.payload, "total_assets")) = report.summary

C9_Witness ==
    /\ pc = "done"
    /\ result.success
    /\ ~fallbackRan
    /\ result.data.total_assets = 999000
    /\ result.data.stocks_my # <<>>
    /\ report.summary.total_assets # 999000

(***************************************************************************)
(* C10: no success result holds a holding with quantity <= 0 or average    *)
(* cost < 0, a metal lot with weight <= 0, an asset with a negative value, *)
(* or a negative cash_balance.                                             *)
(***************************************************************************)
ValidHolding(h) == h.shares > 0 /\ h.avgPrice >= 0

ValidAsset(a) == a.value >= 0

ValidLot(g) == g.weight > 0 /\ g.purchasePrice >= 0

C10_NoInvalidItemInResult ==
    (Returned /\ result.success) =>
        /\ \A i \in DOMAIN result.data.stocks_my : ValidHolding(result.data.stocks_my[i])
        /\ \A i \in DOMAIN result.data.stocks_us : ValidHolding(result.data.stocks_us[i])
        /\ \A i \in DOMAIN result.data.liquid_assets : ValidAsset(result.data.liquid_assets[i])
        /\ \A i \in DOMAIN result.data.illiquid_assets : ValidAsset(result.data.illiquid_assets[i])
        /\ \A i \in DOMAIN result.data.gold : ValidLot(result.data.gold[i])
        /\ result.data.cash_balance >= 0

(***************************************************************************)
(* AssetStatementParser of statement_parser.py: parse_file and the         *)
(* parsers it dispatches to.  A table (a DataFrame, a sheet, a table of a  *)
(* PDF page) is a sequence of rows, a row a sequence of cells, a cell the  *)
(* text str() gives for it; NaN is the empty cell of pandas.  Numbers in   *)
(* cells are unsigned decimals, the domain of Float.                       *)
(***************************************************************************)
MaxRows == 2

NaN == <<"NaN">>
notna(cell) == cell # NaN

UpperSeq == <<"A", "B", "C", "D", "E", "F", "G", "H", "I", "J", "K", "L", "M", "N", "O", "P", "Q", "R", "S", "T", "U", "V", "W", "X", "Y", "Z">>
LowerSeq == <<"a", "b", "c", "d", "e", "f", "g", "h", "i", "j", "k", "l", "m", "n", "o", "p", "q", "r", "s", "t", "u", "v", "w", "x", "y", "z">>

\* str.lower()
LowerChar(c) ==
    IF c \in Upper THEN LowerSeq[CHOOSE i \in 1..26 : UpperSeq[i] = c] ELSE c
LowerText(t) == [i \in DOMAIN t |-> LowerChar(t[i])]

\* `kw in t` for strings
Contains(t, kw) ==
    \E i \in 1..(Len(t) - Len(kw) + 1) : SubSeq(t, i, i + Len(kw) - 1) = kw

ContainsAny(t, kws) == \E kw \in kws : Contains(t, kw)

\* str.strip()
StripText(t) ==
    LET inked == {i \in DOMAIN t : t[i] \notin Whitespace}
    IN  IF inked = {} THEN <<>>
        ELSE SubSeq(t, CHOOSE i \in inked : \A k \in inked : i <= k,
                       CHOOSE i \in inked : \A k \in inked : k <= i)

\* the sequences of a sequence of sequences, joined in order
RECURSIVE Concat(_)
Concat(seqs) ==
    IF seqs = <<>> THEN <<>> ELSE Head(seqs) \o Concat(Tail(seqs))

\* str(cell)
str(cell) == IF cell = NaN THEN <<"n", "a", "n">> ELSE cell

\* re.search(r'^[A-Z]{1,5}$', symbol)
is_us(symbol) == Len(symbol) \in 1..5 /\ AllIn(symbol, 1, Len(symbol), Upper)

\* file_path.lower().split('.')[-1]
file_ext(file_path) ==
    LET low == LowerText(file_path)
        dots == {i \in DOMAIN low : low[i] = "."}
        last == IF dots = {} THEN 0 ELSE CHOOSE i \in dots : \A k \in dots : k <= i
    IN  Slice(low, last + 1, Len(low))

EmptyData ==
    [liquid_assets |-> <<>>, illiquid_assets |-> <<>>,
     stocks_my |-> <<>>, stocks_us |-> <<>>, gold |-> <<>>]

\* the last column whose lower-cased name the loop over df.columns assigns
SymbolWords == {<<"s", "y", "m", "b", "o", "l">>, <<"U+4EE3", "U+7801">>, <<"t", "i", "c", "k", "e", "r">>}
QuantityWords == {<<"q", "u", "a", "n", "t", "i", "t", "y">>, <<"U+6570", "U+91CF">>, <<"s", "h", "a", "r", "e", "s">>}
PriceWords == {<<"p", "r", "i", "c", "e">>, <<"U+4EF7", "U+683C">>, <<"c", "o", "s", "t">>}

ColumnRole(col) ==
    LET col_lower == LowerText(col)
    IN  IF ContainsAny(col_lower, SymbolWords) THEN "symbol"
        ELSE IF ContainsAny(col_lower, QuantityWords) THEN "quantity"
        ELSE IF ContainsAny(col_lower, PriceWords) THEN "price"
        ELSE "other"

\* 0 stands for a column left at None
ColumnOf(columns, role) ==
    LET found == {i \in DOMAIN columns : ColumnRole(columns[i]) = role}
    IN  IF found = {} THEN 0 ELSE CHOOSE i \in found : \A k \in found : k <= i

\* the body of the loop of _parse_stocks_from_dataframe for one row:
\* <<>> when the row is passed over, else the holding and its list
RowHolding(row, symbol_col, quantity_col, price_col) ==
    LET symbol == StripText(str(row[symbol_col]))
        hasq == quantity_col # 0 /\ notna(row[quantity_col])
        hasp == price_col # 0 /\ notna(row[price_col])
    IN  IF symbol = <<>> \/ symbol = <<"n", "a", "n">> THEN <<>>
        ELSE IF hasq /\ ~FloatOk(row[quantity_col]) THEN <<>>
        ELSE IF hasp /\ ~FloatOk(row[price_col]) THEN <<>>
        ELSE LET quantity == IF hasq THEN Float(row[quantity_col]) ELSE 0
                 price == IF hasp THEN Float(row[price_col]) ELSE 0
             IN  IF quantity <= 0 \/ price <= 0 THEN <<>>
                 ELSE <<[symbol |-> symbol, name |-> symbol,
                         shares |-> quantity \div 1000, avgPrice |-> price,
                         currentPrice |-> 0,
                         exchange |-> IF is_us(symbol) THEN "US" ELSE "MY"]>>

Listed(holdings, exchange) == SelectSeq(holdings, LAMBDA h : h.exchange = exchange)

\* my_stocks and us_stocks of a loop that appends each holding to one of them
ByExchange(holdings) == [my |-> Listed(holdings, "MY"), us |-> Listed(holdings, "US")]

\* the holdings put into the two lists of a data dict
WithStocks(data, stocks) ==
    [data EXCEPT !.stocks_my = @ \o stocks.my, !.stocks_us = @ \o stocks.us]

\* try: ... except Exception: the error result in place of the exception
IsRaised(r) == "raised" \in DOMAIN r
Caught(r, message) ==
    IF IsRaised(r) THEN [success |-> FALSE, error |-> message] ELSE r

\* 0 for symbol_col: `if not symbol_col`
_parse_stocks_from_dataframe(df) ==
    IF ColumnOf(df.columns, "symbol") = 0 THEN [my |-> <<>>, us |-> <<>>]
    ELSE ByExchange(Concat([i \in DOMAIN df.rows |->
            RowHolding(df.rows[i], ColumnOf(df.columns, "symbol"),
                       ColumnOf(df.columns, "quantity"),
                       ColumnOf(df.columns, "price"))]))

\* parse_csv; the timestamp of the result is left out
parse_csv(file) ==
    IF ~file.readable
    THEN [success |-> FALSE, error |-> "cannot read the CSV file"]
    ELSE [success |-> TRUE,
          data |-> WithStocks(EmptyData, _parse_stocks_from_dataframe(file))]

(***************************************************************************)
(* parse_excel and the three sheet parsers.  rows[1] of a sheet is the     *)
(* row pandas takes as the header; every row of a sheet has the same       *)
(* number of cells, at least one.  Quantities and weights are whole.       *)
(***************************************************************************)
WordTotal == {<<"U+5408", "U+8BA1">>, <<"U+603B", "U+8BA1">>}
WordStock == <<"U+80A1", "U+7968">>
WordGold == <<"U+91D1">>
WordAssets == <<"U+8D44", "U+4EA7">>
WordFund == <<"U+57FA", "U+91D1">>
WordProvident == <<"U+516C", "U+79EF", "U+91D1">>

\* the rows df.iterrows() goes through
DataRows(rows) == IF Len(rows) <= 1 THEN <<>> ELSE SubSeq(rows, 2, Len(rows))

\* a leaf that is the float nan is written in the field nan of its item,
\* next to a 0 in the place of the number
AssetCategory(name) ==
    IF Contains(name, WordStock) \/ Contains(LowerText(name), <<"s", "t", "o", "c", "k">>)
    THEN "stocks"
    ELSE IF Contains(name, WordGold) \/ Contains(LowerText(name), <<"g", "o", "l", "d">>)
    THEN "gold"
    ELSE IF Contains(name, <<"A", "S", "N", "B">>) \/ Contains(name, WordFund)
    THEN "investment"
    ELSE "cash"

is_illiquid(name) ==
    \/ Contains(name, <<"K", "W", "S", "P">>)
    \/ Contains(name, <<"E", "P", "F">>)
    \/ Contains(name, WordProvident)

\* the body of the loop of _parse_assets_sheet for one row
RowAsset(row) ==
    LET name == StripText(str(row[1]))
        cell == IF Len(row) > 1 THEN row[2] ELSE <<"0">>
        asset_obj(value) == [name |-> name, value |-> value,
                             category |-> AssetCategory(name), notes |-> ""]
    IN  IF ~notna(row[1]) THEN <<>>
        ELSE IF cell = NaN THEN <<With(asset_obj(0), "nan", {"value"})>>
        ELSE IF ~FloatOk(StripText(cell)) THEN <<>>
        ELSE IF Float(StripText(cell)) <= 0 THEN <<>>
        ELSE <<asset_obj(Float(StripText(cell)))>>

\* liquid and illiquid of the loop
ByLiquidity(assets) ==
    [liquid |-> SelectSeq(assets, LAMBDA a : ~is_illiquid(a.name)),
     illiquid |-> SelectSeq(assets, LAMBDA a : is_illiquid(a.name))]

\* read_excel raising on the sheet ends in the except of the parser
_parse_assets_sheet(sheet) ==
    IF ~sheet.readable THEN [liquid |-> <<>>, illiquid |-> <<>>]
    ELSE ByLiquidity(Concat([i \in 1..(Len(sheet.rows) - 1) |->
                                RowAsset(sheet.rows[i + 1])]))

WithAssets(data, assets) ==
    [data EXCEPT !.liquid_assets = @ \o assets.liquid,
                 !.illiquid_assets = @ \o assets.illiquid]

\* the part after the first "/" up to the next one: cell.split('/')[1]
SecondPart(cell) ==
    LET slashes == {i \in DOMAIN cell : cell[i] = "/"}
        first == CHOOSE i \in slashes : \A k \in slashes : i <= k
        later == {i \in slashes : i > first}
        stop == IF later = {} THEN Len(cell) + 1
                ELSE CHOOSE i \in later : \A k \in later : i <= k
    IN  Slice(cell, first + 1, stop - 1)

\* shares and avg_price of _parse_stocks_sheet: 0 unless the cell reads
\* "a/b" with b a number
AfterSlash(row, col) ==
    IF Len(row) >= col /\ notna(row[col]) /\ Contains(row[col], <<"/">>)
          /\ FloatOk(StripText(SecondPart(row[col])))
    THEN Float(StripText(SecondPart(row[col])))
    ELSE 0

\* re.search(r'\(([^)]+)\)', symbol_name): the leftmost "(" with a ")"
\* after it and something in between
ParenStarts(t) ==
    {i \in DOMAIN t :
        /\ t[i] = "("
        /\ i + 1 <= Len(t) /\ t[i + 1] # ")"
        /\ \E j \in DOMAIN t : j > i /\ t[j] = ")"}

ParenGroup(t) ==
    LET i == CHOOSE i \in ParenStarts(t) : \A k \in ParenStarts(t) : i <= k
        j == CHOOSE j \in DOMAIN t :
                j > i /\ t[j] = ")" /\ \A k \in (i + 1)..(j - 1) : t[k] # ")"
    IN  Slice(t, i + 1, j - 1)

\* symbol_name.split('(')[0]
BeforeParen(t) ==
    LET opens == {i \in DOMAIN t : t[i] = "("}
        first == CHOOSE i \in opens : \A k \in opens : i <= k
    IN  Slice(t, 1, first - 1)

HeaderWords == {<<"U+540D", "U+79F0">>, <<"U+4EE3", "U+7801">>, <<"S", "y", "m", "b", "o", "l">>}

\* header_row: the index iterrows gives the first row with a header word
header_row(rows) ==
    LET data == DataRows(rows)
        hits == {i \in DOMAIN data :
                    \E c \in DOMAIN data[i] :
                        notna(data[i][c]) /\ ContainsAny(str(data[i][c]), HeaderWords)}
    IN  IF hits = {} THEN 0 ELSE (CHOOSE i \in hits : \A k \in hits : i <= k) - 1

\* the body of the loop of _parse_stocks_sheet for one row
RowStock(row) ==
    LET symbol_name == StripText(str(row[1]))
        symbol == IF ParenStarts(symbol_name) # {} THEN ParenGroup(symbol_name)
                  ELSE symbol_name
        name == IF ParenStarts(symbol_name) # {} THEN StripText(BeforeParen(symbol_name))
                ELSE symbol_name
        shares == AfterSlash(row, 2)
        avg_price == AfterSlash(row, 3)
    IN  IF ~notna(row[1]) \/ ContainsAny(str(row[1]), WordTotal) THEN <<>>
        ELSE IF shares <= 0 \/ avg_price <= 0 THEN <<>>
        ELSE <<[symbol |-> symbol, name |-> name,
                shares |-> shares \div 1000, avgPrice |-> avg_price,
                currentPrice |-> 0,
                exchange |-> IF is_us(symbol) THEN "US" ELSE "MY"]>>

\* the sheet is read again with header=header_row: the rows below that row
RowsBelow(rows, header) == Slice(rows, header + 2, Len(rows))

StocksOf(rows) == ByExchange(Concat([i \in DOMAIN rows |-> RowStock(rows[i])]))

_parse_stocks_sheet(sheet) ==
    IF ~sheet.readable THEN [my |-> <<>>, us |-> <<>>]
    ELSE StocksOf(RowsBelow(sheet.rows, header_row(sheet.rows)))

\* the body of the loop of _parse_gold_sheet for one row
RowGold(row) ==
    LET name == StripText(str(row[1]))
        has(c) == Len(row) >= c /\ notna(row[c])
        num(c) == Float(StripText(row[c]))
        ok(c) == FloatOk(StripText(row[c]))
        weight == IF has(2) THEN num(2) \div 1000 ELSE 0
        from3 == IF has(3) /\ weight > 0 THEN num(3) \div weight ELSE 0
        buy_price == IF has(4) /\ ok(4) /\ weight > 0 THEN num(4) \div weight ELSE from3
    IN  IF ~notna(row[1]) \/ ContainsAny(str(row[1]), WordTotal) THEN <<>>
        ELSE IF has(2) /\ ~ok(2) THEN <<>>
        ELSE IF has(3) /\ ~ok(3) THEN <<>>
        ELSE IF weight <= 0 \/ buy_price <= 0 THEN <<>>
        ELSE <<[name |-> name, weight |-> weight, buyPrice |-> buy_price, notes |-> ""]>>

_parse_gold_sheet(sheet) ==
    IF ~sheet.readable THEN <<>>
    ELSE Concat([i \in 1..(Len(sheet.rows) - 1) |-> RowGold(sheet.rows[i + 1])])

\* the branch of the loop of parse_excel a sheet name selects
SheetKind(sheet_name) ==
    IF Contains(sheet_name, WordAssets) THEN "assets"
    ELSE IF Contains(sheet_name, WordStock) \/ Contains(LowerText(sheet_name), <<"s", "t", "o", "c", "k">>)
    THEN "stocks"
    ELSE IF Contains(sheet_name, WordGold) \/ Contains(LowerText(sheet_name), <<"g", "o", "l", "d">>)
    THEN "gold"
    ELSE "none"

\* variant: every parser whose words the name holds reads the sheet
AddSheetEvery(data, sheet) ==
    [data EXCEPT
        !.liquid_assets = @ \o (IF Contains(sheet.name, WordAssets)
                                THEN _parse_assets_sheet(sheet).liquid ELSE <<>>),
        !.illiquid_assets = @ \o (IF Contains(sheet.name, WordAssets)
                                  THEN _parse_assets_sheet(sheet).illiquid ELSE <<>>),
        !.stocks_my = @ \o (IF Contains(sheet.name, WordStock)
                                  \/ Contains(LowerText(sheet.name), <<"s", "t", "o", "c", "k">>)
                            THEN _parse_stocks_sheet(sheet).my ELSE <<>>),
        !.stocks_us = @ \o (IF Contains(sheet.name, WordStock)
                                  \/ Contains(LowerText(sheet.name), <<"s", "t", "o", "c", "k">>)
                            THEN _parse_stocks_sheet(sheet).us ELSE <<>>),
        !.gold = @ \o (IF Contains(sheet.name, WordGold)
                             \/ Contains(LowerText(sheet.name), <<"g", "o", "l", "d">>)
                       THEN _parse_gold_sheet(sheet) ELSE <<>>)]

\* one turn of the loop over xls.sheet_names
AddSheet(data, sheet) ==
    CASE SheetKind(sheet.name) = "assets" -> WithAssets(data, _parse_assets_sheet(sheet))
      [] SheetKind(sheet.name) = "stocks" -> WithStocks(data, _parse_stocks_sheet(sheet))
      [] SheetKind(sheet.name) = "gold" ->
            [data EXCEPT !.gold = @ \o _parse_gold_sheet(sheet)]
      [] OTHER -> data

RECURSIVE AddSheets(_, _)
AddSheets(data, sheets) ==
    IF sheets = <<>> THEN data
    ELSE AddSheets(AddSheet(data, Head(sheets)), Tail(sheets))

\* parse_excel; the timestamp of the result is left out
parse_excel(file) ==
    IF ~file.readable
    THEN [success |-> FALSE, error |-> "parsing failed"]
    ELSE [success |-> TRUE, data |-> AddSheets(EmptyData, file.sheets)]

(***************************************************************************)
(* parse_pdf and the three statement parsers.  A page is the text          *)
(* extract_text() gives, or NoText where it gives None, and the tables     *)
(* extract_tables() gives; a cell of a table is a string or NoCell.        *)
(***************************************************************************)
NoText == <<"None">>
NoCell == <<"None">>

\* `if cell`
Filled(cell) == cell # NoCell /\ cell # <<>>

\* str(cell) of a cell of a PDF table
strCell(cell) == IF cell = NoCell THEN <<"N", "o", "n", "e">> ELSE cell

\* str.isdigit()
isdigit(t) == t # <<>> /\ AllIn(t, 1, Len(t), Digits)

WordFutu == <<"U+5BCC", "U+9014">>
WordWebull == <<"U+5FAE", "U+725B">>
WordAccountBalance == <<"U+8D26", "U+6237", "U+4F59", "U+989D">>

_identify_broker(text) ==
    LET text_lower == LowerText(text)
    IN  IF Contains(text_lower, <<"m", "o", "o", "m", "o", "o">>) \/ Contains(text, WordFutu)
        THEN "moomoo"
        ELSE IF Contains(text_lower, <<"w", "e", "b", "u", "l", "l">>) \/ Contains(text, WordWebull)
        THEN "webull"
        ELSE IF \/ Contains(text_lower, <<"i", "n", "t", "e", "r", "a", "c", "t", "i", "v", "e", " ", "b", "r", "o", "k", "e", "r", "s">>)
                \/ Contains(text_lower, <<"i", "b", "k", "r">>)
        THEN "interactive_brokers"
        ELSE "generic"

TableHeaderWords == {WordStock, <<"S", "y", "m", "b", "o", "l">>, <<"U+4EE3", "U+7801">>}

\* the loop over the cells of a row of _parse_moomoo_pdf: the first value
\* below 10000 is the quantity, the next value left is the price
RECURSIVE Scan(_, _, _)
Scan(cells, quantity, avg_price) ==
    IF cells = <<>> THEN [quantity |-> quantity, avg_price |-> avg_price]
    ELSE LET cell == Head(cells)
             val == IF /\ Filled(cell)
                       /\ isdigit(Remove(Remove(cell, "."), ","))
                       /\ FloatOk(Remove(cell, ","))
                    THEN Float(Remove(cell, ",")) ELSE 0
             first == 0 < val /\ val < 10000000 /\ quantity = 0
             second == ~first /\ val > 0 /\ avg_price = 0
         IN  Scan(Tail(cells),
                  IF first THEN val ELSE quantity,
                  IF second THEN val ELSE avg_price)

\* shares keeps the whole part of the quantity
Holding(symbol, quantity, avg_price) ==
    [symbol |-> symbol, name |-> symbol,
     shares |-> quantity \div 1000, avgPrice |-> avg_price,
     currentPrice |-> 0,
     exchange |-> IF is_us(symbol) THEN "US" ELSE "MY"]

RowMoomoo(row) ==
    LET symbol == IF Filled(row[1]) THEN StripText(strCell(row[1])) ELSE <<>>
        found == Scan(row, 0, 0)
    IN  IF Len(row) < 3 THEN <<>>
        ELSE IF symbol = <<>> \/ symbol = <<"N", "o", "n", "e">> THEN <<>>
        ELSE IF found.quantity > 0 /\ found.avg_price > 0
        THEN <<Holding(symbol, found.quantity, found.avg_price)>>
        ELSE <<>>

\* float(cell) if cell and str(cell).replace('.', '').isdigit() else 0;
\* -1 stands for the ValueError of float
WebullNumber(cell) ==
    IF Filled(cell) /\ isdigit(Remove(cell, "."))
    THEN IF FloatOk(cell) THEN Float(cell) ELSE -1
    ELSE 0

RowWebull(row) ==
    LET symbol == IF Filled(row[1]) THEN StripText(strCell(row[1])) ELSE <<>>
        quantity == WebullNumber(row[2])
        avg_price == WebullNumber(row[3])
    IN  IF Len(row) < 4 THEN <<>>
        ELSE IF symbol = <<>> THEN <<>>
        ELSE IF quantity > 0 /\ avg_price > 0
        THEN <<Holding(symbol, quantity, avg_price)>>
        ELSE <<>>

\* re.search(r'\b([A-Z]{1,5})\b', cell_str): the starts of a match
TickerStarts(t) ==
    {p \in DOMAIN t :
        /\ t[p] \in Upper
        /\ Boundary(t, p)
        /\ RunEnd(t, p, Upper) - p + 1 <= 5
        /\ Boundary(t, RunEnd(t, p, Upper) + 1)}

Ticker(t) ==
    LET p == CHOOSE x \in TickerStarts(t) : \A y \in TickerStarts(t) : x <= y
    IN  Slice(t, p, RunEnd(t, p, Upper))

\* numbers of _parse_generic_pdf: the cells that convert to a value above 0
Numbers(cells) ==
    Concat([i \in DOMAIN cells |->
        LET text == Remove(StripText(strCell(cells[i])), ",")
        IN  IF Filled(cells[i]) /\ FloatOk(text) /\ Float(text) > 0
            THEN <<Float(text)>> ELSE <<>>])

\* one turn of the loop over the cells of a row of _parse_generic_pdf
CellGeneric(row, i) ==
    LET cell_str == StripText(strCell(row[i]))
        numbers == Numbers(Slice(row, i + 1, Len(row)))
        symbol == Ticker(cell_str)
    IN  IF Filled(row[i]) /\ TickerStarts(cell_str) # {} /\ Len(numbers) >= 2
        THEN <<[symbol |-> symbol, name |-> symbol,
                shares |-> numbers[1] \div 1000, avgPrice |-> numbers[2],
                currentPrice |-> 0, exchange |-> "US"]>>
        ELSE <<>>

RowGeneric(row) ==
    IF Len(row) < 2 THEN <<>>
    ELSE Concat([i \in DOMAIN row |-> CellGeneric(row, i)])

\* the holdings of one table, by the parser of each broker
TableMoomoo(table) ==
    IF Len(table) < 2 THEN <<>>
    ELSE IF \E c \in DOMAIN table[1] :
               Filled(table[1][c]) /\ ContainsAny(strCell(table[1][c]), TableHeaderWords)
    THEN Concat([i \in 1..(Len(table) - 1) |-> RowMoomoo(table[i + 1])])
    ELSE <<>>

TableWebull(table) ==
    IF Len(table) < 2 THEN <<>>
    ELSE Concat([i \in 1..(Len(table) - 1) |-> RowWebull(table[i + 1])])

TableGeneric(table) ==
    IF Len(table) < 2 THEN <<>>
    ELSE Concat([i \in DOMAIN table |-> RowGeneric(table[i])])

\* the balance of the account of _parse_moomoo_pdf
MoomooBalance(text) ==
    LET m == BalanceMatch(text, WordAccountBalance)
        balance == IF m.ok /\ FloatOk(Remove(m.group, ","))
                   THEN Float(Remove(m.group, ",")) ELSE 0
    IN  IF balance > 0
        THEN <<[name |-> "MOOMOO account balance", value |-> balance,
                category |-> "cash", notes |-> "cash balance"]>>
        ELSE <<>>

_parse_moomoo_pdf(text, tables) ==
    WithStocks([EmptyData EXCEPT !.liquid_assets = MoomooBalance(text)],
               ByExchange(Concat([i \in DOMAIN tables |-> TableMoomoo(tables[i])])))

_parse_webull_pdf(text, tables) ==
    WithStocks(EmptyData,
               ByExchange(Concat([i \in DOMAIN tables |-> TableWebull(tables[i])])))

_parse_generic_pdf(text, tables) ==
    [EmptyData EXCEPT
        !.stocks_us = Concat([i \in DOMAIN tables |-> TableGeneric(tables[i])])]

full_text(pages) == Concat([i \in DOMAIN pages |-> pages[i].text \o <<"\n">>])

AllTables(pages) == Concat([i \in DOMAIN pages |-> pages[i].tables])

\* the statement parser the broker selects
Parsed(broker, text, tables) ==
    [success |-> TRUE,
     data |-> CASE broker = "moomoo" -> _parse_moomoo_pdf(text, tables)
                [] broker = "webull" -> _parse_webull_pdf(text, tables)
                [] OTHER -> _parse_generic_pdf(text, tables),
     broker |-> broker]

\* what runs inside the try of parse_pdf
parse_pdf_body(file) ==
    IF ~file.readable THEN Raised("PDFSyntaxError")
    ELSE IF \E i \in DOMAIN file.pages : file.pages[i].text = NoText
    THEN Raised("TypeError")
    ELSE Parsed(_identify_broker(full_text(file.pages)),
                full_text(file.pages), AllTables(file.pages))

\* variant: the result under construction is returned with the failure
parse_pdf_keeping_data(file) ==
    IF IsRaised(parse_pdf_body(file))
    THEN [success |-> FALSE, error |-> "PDF parsing failed", data |-> EmptyData]
    ELSE parse_pdf_body(file)

\* variant: parse_pdf without its try
parse_pdf_uncaught(file) == parse_pdf_body(file)

\* parse_pdf; the timestamp of the result is left out
parse_pdf(file) == Caught(parse_pdf_body(file), "PDF parsing failed")

(***************************************************************************)
(* parse_file and the files it is given.                                   *)
(***************************************************************************)
ExtsExcel == {<<"x", "l", "s", "x">>, <<"x", "l", "s">>}
ExtCsv == <<"c", "s", "v">>
ExtPdf == <<"p", "d", "f">>

\* variant: parse_file and parse_pdf without their try
parse_file_uncaught(file) ==
    CASE file_ext(file.file_path) \in ExtsExcel -> parse_excel(file)
      [] file_ext(file.file_path) = ExtCsv -> parse_csv(file)
      [] file_ext(file.file_path) = ExtPdf -> parse_pdf_uncaught(file)
      [] OTHER -> [success |-> FALSE, error |-> "unsupported file format"]

\* what runs inside the try of parse_file
parse_file_body(file) ==
    CASE file_ext(file.file_path) \in ExtsExcel -> parse_excel(file)
      [] file_ext(file.file_path) = ExtCsv -> parse_csv(file)
      [] file_ext(file.file_path) = ExtPdf -> parse_pdf(file)
      [] OTHER -> [success |-> FALSE, error |-> "unsupported file format"]

parse_file(file) == Caught(parse_file_body(file), "parsing failed")

PathXlsx == <<"a", ".", "x", "l", "s", "x">>
PathXLS == <<"B", ".", "X", "L", "S">>
PathCsv == <<"a", ".", "b", ".", "c", "s", "v">>
PathPdf == <<"a", ".", "P", "d", "f">>
PathTxt == <<"a", ".", "t", "x", "t">>
PathBare == <<"s", "t", "a", "t", "e", "m", "e", "n", "t">>

\* CSV files: the DataFrame read_csv gives
CsvHeaders ==
    {<<<<"S", "y", "m", "b", "o", "l">>, <<"Q", "u", "a", "n", "t", "i", "t", "y">>, <<"P", "r", "i", "c", "e">>>>,
     <<<<"T", "i", "c", "k", "e", "r">>, <<"S", "h", "a", "r", "e", "s">>, <<"A", "v", "g", " ", "C", "o", "s", "t">>>>,
     <<<<"U+4EE3", "U+7801">>, <<"U+6570", "U+91CF">>, <<"U+4EF7", "U+683C">> >>,
     <<<<"N", "a", "m", "e">>, <<"Q", "t", "y">>, <<"P", "r", "i", "c", "e">>>>,
     <<<<"S", "y", "m", "b", "o", "l">>, <<"N", "o", "t", "e">>, <<"P", "r", "i", "c", "e">>>>,
     <<<<"S", "y", "m", "b", "o", "l">>, <<"S", "h", "a", "r", "e", "s">>, <<"S", "y", "m", "b", "o", "l", " ", "p", "r", "i", "c", "e">>>>}

CsvRows ==
    {<<a, b, c>> : a \in {Sym1155, SymTSLA, SymMixed, NaN},
                   b \in {<<"1", "0">>, <<"0">>, <<"1", "2", "k">>},
                   c \in {<<"1", ".", "5">>, NaN}}

HeadCsv == <<<<"S", "y", "m", "b", "o", "l">>, <<"Q", "u", "a", "n", "t", "i", "t", "y">>, <<"P", "r", "i", "c", "e">>>>

FilesCsv ==
    {[file_path |-> PathCsv, readable |-> TRUE, columns |-> HeadCsv, rows |-> r] :
        r \in BSeq(CsvRows, MaxRows)}
      \cup {[file_path |-> PathCsv, readable |-> TRUE, columns |-> h, rows |-> r] :
              h \in CsvHeaders, r \in BSeq(CsvRows, 1)}
      \cup {[file_path |-> PathCsv, readable |-> FALSE, columns |-> <<>>, rows |-> <<>>]}

\* workbooks
NameAssets == <<"U+8D44", "U+4EA7", "U+5206", "U+914D">>
NameStocks == <<"M", "y", " ", "S", "t", "o", "c", "k", "s">>
NameGold == <<"U+9EC4", "U+91D1">>
NameOther == <<"S", "h", "e", "e", "t", "1">>
NameAssetsStocks == <<"U+8D44", "U+4EA7", "U+80A1", "U+7968">>
NameStockGold == <<"g", "o", "l", "d", " ", "s", "t", "o", "c", "k">>
SheetNames == {NameAssets, NameStocks, NameGold, NameOther, NameAssetsStocks, NameStockGold}

HeadAssets == <<<<"I", "t", "e", "m">>, <<"V", "a", "l", "u", "e">>>>
HeadStocks == <<<<"S", "t", "o", "c", "k">>, <<"V", "a", "l", "u", "e", "/", "Q", "t", "y">>, <<"N", "o", "w", "/", "C", "o", "s", "t">>>>
HeadGold == <<<<"I", "t", "e", "m">>, <<"W", "e", "i", "g", "h", "t">>, <<"P", "a", "i", "d">>, <<"C", "o", "s", "t">>>>

AssetRows ==
    {<<a, b>> : a \in {<<"s", "a", "v", "i", "n", "g", "s">>, <<"E", "P", "F">>, WordFund, NaN},
                b \in {<<"1", "0", "0">>, <<"0">>, <<"1", "2", "k">>, NaN}}
      \cup {<<<<"U+5408", "U+8BA1">>, <<"1", "0", "0">>>>}

StockRows ==
    {<<a, b, c>> : a \in {<<"M", "a", "y", "b", "a", "n", "k", " ", "(", "1", "1", "5", "5", ")">>, SymTSLA, SymMixed,
                          <<"U+5408", "U+8BA1">>, <<"S", "y", "m", "b", "o", "l">>},
                   b \in {<<"5", "0", "0", "0", "/", "1", "0", "0">>, <<"1", "0", "0">>},
                   c \in {<<"9", ".", "5", "/", "9", ".", "2">>, NaN}}

GoldRows ==
    {<<a, b, c, d>> : a \in {<<"9", "1", "6", " ", "b", "a", "r">>, <<"U+603B", "U+8BA1">>},
                      b \in {<<"2">>, <<"0">>, <<"x">>},
                      c \in {<<"6", "0", "0">>, NaN},
                      d \in {<<"8", "0", "0">>, NaN}}

Sheet(name, head, rows) == [name |-> name, rows |-> <<head>> \o rows, readable |-> TRUE]

\* a sheet read_excel raises on
Broken(sheet) == [sheet EXCEPT !.readable = FALSE]
Workbook(sheets) == [file_path |-> PathXlsx, readable |-> TRUE, sheets |-> sheets]

SheetAssets1 == Sheet(NameAssets, HeadAssets, <<<<<<"s", "a", "v", "i", "n", "g", "s">>, <<"1", "0", "0">>>> >>)
SheetStocks1 == Sheet(NameStocks, HeadStocks, <<<<SymTSLA, <<"5", "0", "0", "0", "/", "1", "0", "0">>, <<"9", ".", "5", "/", "9", ".", "2">>>> >>)

SheetAssets2 == Sheet(NameAssetsStocks, HeadAssets, <<<<<<"E", "P", "F">>, <<"7">>>>, <<<<"c", "a", "s", "h">>, <<"8">>>> >>)
SheetAssets3 == Sheet(WordAssets, HeadAssets, <<<<<<"K", "W", "S", "P">>, <<"9">>>> >>)
SheetGold1 == Sheet(NameGold, HeadGold, <<<<<<"9", "1", "6", " ", "b", "a", "r">>, <<"2">>, <<"6", "0", "0">>, <<"8", "0", "0">>>> >>)
SheetGold2 == Sheet(NameStockGold, HeadStocks, <<<<<<"A", "A", "P", "L">>, <<"5", "0", "0", "0", "/", "3">>, <<"9", ".", "5", "/", "9", ".", "2">>>> >>)

\* workbooks of several sheets, one of them read_excel may raise on
WorkbooksMixed ==
    {Workbook(<<a, b, c>>) :
        a \in {SheetAssets1, Broken(SheetAssets1), SheetStocks1},
        b \in {SheetAssets2, SheetGold2, Broken(SheetGold2)},
        c \in {SheetGold1, Broken(SheetGold1), SheetAssets3}}

FilesExcel ==
    WorkbooksMixed \cup
    {Workbook(<<Sheet(NameAssets, HeadAssets, r)>>) : r \in BSeq(AssetRows, MaxRows)}
      \cup {Workbook(<<Sheet(NameStocks, HeadStocks, r)>>) : r \in BSeq(StockRows, MaxRows)}
      \cup {Workbook(<<Sheet(NameGold, HeadGold, r)>>) : r \in BSeq(GoldRows, MaxRows)}
      \cup {Workbook(<<[SheetStocks1 EXCEPT !.name = n]>>) : n \in SheetNames}
      \cup {Workbook(<<>>), Workbook(<<SheetAssets1, SheetStocks1>>),
            Workbook(<<SheetStocks1, SheetStocks1>>)}
      \cup {[file_path |-> f, readable |-> FALSE, sheets |-> <<>>] : f \in {PathXlsx, PathXLS}}
      \cup {[Workbook(<<SheetStocks1>>) EXCEPT !.file_path = PathXLS]}

\* PDF files
PdfTextMoomoo == <<"M", "o", "o", "M", "o", "o", "\n">> \o WordAccountBalance \o <<":", " ", "1", ",", "0", "0", "0", ".", "5", "0">>
PdfTextFutu == WordFutu \o <<" ">> \o WordAccountBalance \o <<" ", "0">>
PdfTextWebull == <<"W", "e", "b", "u", "l", "l", " ", "s", "t", "a", "t", "e", "m", "e", "n", "t">>
PdfTextIbkr == <<"I", "B", "K", "R">>
PdfTextPlain == <<"S", "t", "a", "t", "e", "m", "e", "n", "t">>
PdfTexts == {PdfTextMoomoo, PdfTextFutu, PdfTextWebull, PdfTextIbkr, PdfTextPlain, <<>>}

PdfHeads ==
    {<<<<"S", "y", "m", "b", "o", "l">>, <<"Q", "t", "y">>, <<"P", "r", "i", "c", "e">>, <<"F", "e", "e">>>>,
     <<<<"N", "a", "m", "e">>, <<"Q", "t", "y">>, <<"P", "r", "i", "c", "e">>, <<"F", "e", "e">>>>}

PdfRows ==
    {<<a, b, c, <<"5">>>> : a \in {SymTSLA, Sym1155, SymMixed, NoCell},
                       b \in {<<"1", "0", "0">>, <<"x">>},
                       c \in {<<"9", ".", "2", "0">>, NoCell}}
      \cup {<<SymTSLA, <<"1", "0", "0">>, <<"9", ".", "2", "0">>>>,
            <<SymTSLA, <<"1", ".", "2", ".", "3">>, <<"1", ",", "0", "0", "0">>, <<"9", ".", "2", "0">>>>}

Page(text, tables) == [text |-> text, tables |-> tables]
Pdf(pages) == [file_path |-> PathPdf, readable |-> TRUE, pages |-> pages]

FilesPdf ==
    {Pdf(<<Page(t, <<<<h>> \o r>>)>>) :
        t \in {PdfTextMoomoo, PdfTextWebull, PdfTextPlain},
        h \in {CHOOSE x \in PdfHeads : x[1] = <<"S", "y", "m", "b", "o", "l">>},
        r \in BSeq(PdfRows, MaxRows)}
      \cup {Pdf(<<Page(t, <<<<h>> \o r>>)>>) :
              t \in PdfTexts, h \in PdfHeads, r \in BSeq(PdfRows, 1)}
      \cup {Pdf(<<Page(t, <<>>)>>) : t \in PdfTexts}
      \cup {Pdf(<<>>), Pdf(<<Page(NoText, <<>>)>>),
            Pdf(<<Page(PdfTextPlain, <<>>), Page(NoText, <<>>)>>),
            Pdf(<<Page(PdfTextPlain, <<>>), Page(PdfTextMoomoo, <<>>)>>)}
      \cup {[file_path |-> PathPdf, readable |-> FALSE, pages |-> <<>>]}

FilesOther == {[file_path |-> f, readable |-> TRUE] : f \in {PathTxt, PathBare}}

Files == FilesCsv \cup FilesExcel \cup FilesPdf \cup FilesOther

InitFile ==
    /\ keys = [p \in ProviderSet |-> FALSE]
    /\ doc \in Files
    /\ pc = "parse_file"
    /\ calls = <<>>
    /\ response = None
    /\ fallbackRan = FALSE
    /\ result = None
    /\ report = None
    /\ HostIdle

\* a call of parse_file
ParseFile ==
    /\ pc = "parse_file"
    /\ result' = parse_file(doc)
    /\ pc' = "file_returned"
    /\ UNCHANGED <<keys, doc, calls, response, fallbackRan, report, host>>

NextFile == ParseFile

SpecFile == InitFile /\ [][NextFile]_vars

\* both parsers
SpecBoth == (Init \/ InitFile) /\ [][Next \/ NextFile]_vars

(***************************************************************************)
(* C16: on an input error (a declared type that is not supported, a        *)
(* document that cannot be read, a PDF without text) parse_file_with_ai    *)
(* returns success false in its first step, and at no point of the run is  *)
(* a provider requested or the heuristic extraction made.                  *)
(***************************************************************************)
SupportedTypes == {"xlsx", "xls", "excel", "pdf", "jpg", "jpeg", "png", "image"}

InputError(d) ==
    \/ d.file_type \notin SupportedTypes
    \/ ~d.readable
    \/ d.file_type = "pdf" /\ IsBlank(d.text)

C16_InputErrorEndsRun ==
    InputError(doc) =>
        /\ calls = <<>>
        /\ ~fallbackRan
        /\ pc \in {"start", "returned", "done"}
        /\ pc # "start" => (~result.success /\ "error" \in DOMAIN result)

C16_Witness ==
    /\ pc = "done"
    /\ doc.file_type = "pdf"
    /\ doc.readable
    /\ IsBlank(doc.text)
    /\ doc.text # <<>>
    /\ Configured = ProviderSet
    /\ ~result.success

(***************************************************************************)
(* C17: a provider without a credential is never requested, and its        *)
(* absence alone produces no error: an error result comes from the input   *)
(* stage or from the content a configured provider answered with, and      *)
(* while the chain is being walked no result has been set.                 *)
(***************************************************************************)
C17_UnconfiguredProviderSkipped ==
    /\ \A i \in DOMAIN calls : keys[calls[i].provider]
    /\ pc \in ProviderSet \cup {"fallback"} => result = None
    /\ (Returned /\ ~result.success) =>
          \/ calls = <<>> /\ (InputError(doc) \/ doc.file_type = "image")
          \/ calls # <<>> /\ calls[Len(calls)].kind \in {"invalid", "nonobject"}
    /\ (Returned /\ Configured = {} /\ ~InputError(doc) /\ doc.file_type # "image") =>
          /\ calls = <<>>
          /\ fallbackRan
          /\ result.success

C17_Witness ==
    /\ pc = "done"
    /\ ~keys["anthropic"]
    /\ keys["groq"]
    /\ ~keys["openai"]
    /\ Len(calls) = 1
    /\ calls[1].provider = "groq"
    /\ calls[1].none
    /\ fallbackRan
    /\ result.success

(***************************************************************************)
(* C20: for a PDF whose pages yield no text, no error is reported for the  *)
(* missing text and the run goes on to the image-based extraction.         *)
(***************************************************************************)
C20_ScannedPdfFallsBackToImage ==
    (Returned /\ doc.file_type = "pdf" /\ doc.readable /\ IsBlank(doc.text)) =>
        result # [success |-> FALSE, error |-> "no text content found in PDF"]

(***************************************************************************)
(* C12: whatever list the payload filed a holding under, every holding     *)
(* returned in stocks_my has a symbol of four digits and every holding     *)
(* returned in stocks_us a symbol of 1 to 5 uppercase letters.             *)
(***************************************************************************)
IsSymbolMY(sym) == Len(sym) = 4 /\ AllIn(sym, 1, 4, Digits)
IsSymbolUS(sym) == Len(sym) \in 1..5 /\ AllIn(sym, 1, Len(sym), Upper)

\* the result is what a provider's JSON object was turned into
ObjectAnswered ==
    /\ Returned
    /\ ~fallbackRan
    /\ calls # <<>>
    /\ calls[Len(calls)].kind = "object"

C12_MarketRederivedFromSymbol ==
    ObjectAnswered =>
        /\ \A i \in DOMAIN result.data.stocks_my : IsSymbolMY(result.data.stocks_my[i].symbol)
        /\ \A i \in DOMAIN result.data.stocks_us : IsSymbolUS(result.data.stocks_us[i].symbol)

(***************************************************************************)
(* C13: when one item of a payload has a leaf that does not coerce to a    *)
(* number, that item is left out of the result, the other items of its     *)
(* list are returned, the result is a success and the summary computed     *)
(* from it raises nothing.                                                 *)
(***************************************************************************)
\* float() of a leaf of an item fails
Uncoercible(item) ==
    "text" \in DOMAIN item /\ \E k \in DOMAIN item.text : ~FloatOk(item.text[k])

RECURSIVE Coercible(_)
Coercible(items) ==
    IF items = <<>> THEN <<>>
    ELSE IF Uncoercible(Head(items)) THEN Coercible(Tail(items))
    ELSE <<Head(items)>> \o Coercible(Tail(items))

ListFields == {"liquid_assets", "illiquid_assets", "stocks_my", "stocks_us", "gold"}

HasUncoercible(payload) ==
    \E k \in ListFields \cap DOMAIN payload :
        \E i \in DOMAIN payload[k] : Uncoercible(payload[k][i])

C13_UncoercibleItemDroppedAlone ==
    (pc = "done" /\ ObjectAnswered /\ HasUncoercible(response.payload)) =>
        /\ result.success
        /\ \A k \in ListFields :
              result.data[k] = Coercible(Get(response.payload, k, <<>>))
        /\ report # Raised("TypeError")

(***************************************************************************)
(* C18: for a payload that is a JSON object the data of the result has     *)
(* exactly the seven expected fields; a field the payload has is taken     *)
(* from it, a field it lacks is the empty sequence or zero, and no other   *)
(* field of the payload is in the data.                                    *)
(***************************************************************************)
Default(k) == IF k \in ListFields THEN <<>> ELSE 0

C18_ExactlyTheExpectedFields ==
    ObjectAnswered =>
        /\ result.success
        /\ DOMAIN result.data = ExpectedFields
        /\ \A k \in ExpectedFields :
              result.data[k] = IF k \in DOMAIN response.payload
                               THEN response.payload[k] ELSE Default(k)

C18_Witness ==
    /\ pc = "done"
    /\ ObjectAnswered
    /\ DOMAIN response.payload = {"stocks_us", "cash_balance", "broker", "confidence"}
    /\ result.data.liquid_assets = <<>>
    /\ result.data.total_assets = 0
    /\ result.data.cash_balance = 5000000

(***************************************************************************)
(* C19: when the text of a response holds one well-formed JSON object and  *)
(* around it only prose, braces written in the prose, white space and code *)
(* fences, the result is a success with the fields of that object.         *)
(***************************************************************************)
Surrounding == {"prose", "ws", "lbrace", "rbrace", "fence_json", "fence"}

OneObjectInProse(t) ==
    \E i \in DOMAIN t :
        /\ t[i].piece = "object"
        /\ \A k \in DOMAIN t \ {i} : t[k].piece \in Surrounding

TheObject(t) == t[CHOOSE i \in DOMAIN t : t[i].piece = "object"].payload

C19_ObjectExtractedFromProse ==
    (Returned /\ ~fallbackRan /\ calls # <<>> /\ OneObjectInProse(response.text)) =>
        /\ result.success
        /\ \A k \in DOMAIN TheObject(response.text) \cap ExpectedFields :
              result.data[k] = TheObject(response.text)[k]

(***************************************************************************)
(* C11: parse_file files a holding by the shape of its symbol: every       *)
(* holding in stocks_my has a symbol of four digits, every holding in      *)
(* stocks_us a symbol of 1 to 5 uppercase letters, so that a symbol of     *)
(* neither shape is in neither list.                                       *)
(***************************************************************************)
C11_ClassifiedBySymbolShape ==
    (pc = "file_returned" /\ result.success) =>
        /\ \A i \in DOMAIN result.data.stocks_my :
              IsSymbolMY(result.data.stocks_my[i].symbol)
        /\ \A i \in DOMAIN result.data.stocks_us :
              IsSymbolUS(result.data.stocks_us[i].symbol)

(***************************************************************************)
(* C14: parse_file_with_ai and parse_file hand back a result with a        *)
(* success field and never an exception; a result that is not a success    *)
(* has an error message; a workbook that cannot be read gives such a       *)
(* result from either of them.                                             *)
(***************************************************************************)
HasReturned == pc \in {"returned", "done", "file_returned"}

C14_NeverRaises ==
    /\ HasReturned => (~IsRaised(result) /\ "success" \in DOMAIN result)
    /\ (HasReturned /\ ~result.success) => "error" \in DOMAIN result
    /\ (Returned /\ doc.file_type = "excel" /\ ~doc.readable) => ~result.success
    /\ (pc = "file_returned" /\ doc.file_path \in {PathXlsx, PathXLS} /\ ~doc.readable) =>
          ~result.success

C14_Witness ==
    /\ pc = "file_returned"
    /\ doc.file_path = PathPdf
    /\ doc.readable
    /\ \E i \in DOMAIN doc.pages : doc.pages[i].text = NoText
    /\ ~result.success

(***************************************************************************)
(* C15: a result with success false has a non-empty error and no data; a   *)
(* result with success true has data.                                      *)
(***************************************************************************)
C15_ErrorXorData ==
    HasReturned =>
        IF result.success
        THEN "data" \in DOMAIN result
        ELSE /\ "error" \in DOMAIN result
             /\ result.error # ""
             /\ "data" \notin DOMAIN result

C15_Witness ==
    /\ pc = "returned"
    /\ ~result.success
    /\ "raw_response" \in DOMAIN result
    /\ "data" \notin DOMAIN result

(***************************************************************************)
(* C21: the text a request embeds is the first 4000 characters of the      *)
(* text of the document, whatever its length, and a text longer than that  *)
(* is processed: the configured providers are requested and the only       *)
(* failures are those of the content of a response.                        *)
(***************************************************************************)
C21_PromptWithinBudget ==
    /\ \A i \in DOMAIN calls :
          /\ Len(calls[i].prompt.text) <= PromptBudget
          /\ calls[i].prompt.text =
                SubSeq(doc.text, 1, Len(calls[i].prompt.text))
          /\ Len(doc.text) >= PromptBudget => Len(calls[i].prompt.text) = PromptBudget
          /\ Len(doc.text) < PromptBudget => calls[i].prompt.text = doc.text
    /\ (Returned /\ Len(doc.text) > PromptBudget) =>
          /\ Configured # {} => calls # <<>>
          /\ ~result.success => /\ calls # <<>>
                                /\ calls[Len(calls)].kind \in {"invalid", "nonobject"}

C21_Witness ==
    /\ pc = "done"
    /\ Len(doc.text) = PromptBudget + 1
    /\ Len(calls) = 1
    /\ Len(calls[1].prompt.text) = PromptBudget
    /\ result.success
    /\ ~fallbackRan

Succeeds(t, i) ==
    /\ BalanceMatch(t, balance_patterns[i]).ok
    /\ FloatOk(Remove(BalanceMatch(t, balance_patterns[i]).group, ","))

Succeeding(t) == {i \in DOMAIN balance_patterns : Succeeds(t, i)}

FirstSucceeding(t) == CHOOSE i \in Succeeding(t) : \A k \in Succeeding(t) : i <= k

C23_FirstBalancePatternWins ==
    (Returned /\ fallbackRan) =>
        /\ balance_patterns[1] = KwYue
        /\ balance_patterns[2] = <<"B", "a", "l", "a", "n", "c", "e">>
        /\ balance_patterns[3] = KwXianjin
        /\ balance_patterns[4] = <<"C", "a", "s", "h">>
        /\ Succeeding(doc.text) = {} => result.data.cash_balance = 0
        /\ Succeeding(doc.text) # {} =>
              result.data.cash_balance =
                  Float(Remove(BalanceMatch(doc.text,
                                  balance_patterns[FirstSucceeding(doc.text)]).group, ","))
        /\ doc.text = TextBalance => result.data.cash_balance = 5000000

\* the first keyword of the list matches without a number that converts,
\* a later one gives the balance
C23_Witness ==
    /\ pc = "done"
    /\ fallbackRan
    /\ BalanceMatch(doc.text, balance_patterns[2]).ok
    /\ Succeeding(doc.text) = {4}
    /\ result.data.cash_balance = 7000

(***************************************************************************)
(* C24: every holding parse_file takes from the tables of a PDF comes from *)
(* a row in which at least two numbers follow the cell of the symbol, the  *)
(* first of them its quantity and the second its cost; the cell of the     *)
(* symbol is not one of the two.                                           *)
(***************************************************************************)
\* the cells after cell i of a row that are numbers
NumbersAfter(row, i) ==
    SelectSeq(Slice(row, i + 1, Len(row)),
              LAMBDA c : Filled(c) /\ FloatOk(Remove(c, ",")))

HoldingsIn(data) ==
    {data.stocks_my[i] : i \in DOMAIN data.stocks_my}
        \cup {data.stocks_us[i] : i \in DOMAIN data.stocks_us}

TwoNumbersFollow(h, row) ==
    \E i \in DOMAIN row :
        /\ row[i] = h.symbol
        /\ Len(NumbersAfter(row, i)) >= 2
        /\ h.shares = Float(Remove(NumbersAfter(row, i)[1], ",")) \div 1000
        /\ h.avgPrice = Float(Remove(NumbersAfter(row, i)[2], ","))

C24_TwoNumbersAfterSymbol ==
    (pc = "file_returned" /\ doc.file_path = PathPdf /\ result.success) =>
        \A h \in HoldingsIn(result.data) :
            \E p \in DOMAIN doc.pages :
                \E t \in DOMAIN doc.pages[p].tables :
                    \E r \in DOMAIN doc.pages[p].tables[t] :
                        TwoNumbersFollow(h, doc.pages[p].tables[t][r])

(***************************************************************************)
(* C25: in a workbook parse_file reads, a row of a sheet whose leading     *)
(* cell is empty or holds a total sentinel gives no item: the items of the *)
(* result are no more than the other rows, and none is named by a          *)
(* sentinel or by the text of an empty cell.                               *)
(***************************************************************************)
Skipped(row) == row[1] = NaN \/ ContainsAny(row[1], WordTotal)

\* the rows below the header of the sheets that are not to be skipped
RowsKept(sheets) ==
    {<<s, r>> \in (DOMAIN sheets) \X (2..(MaxRows + 1)) :
        r <= Len(sheets[s].rows) /\ ~Skipped(sheets[s].rows[r])}

ItemsOf(data) ==
    data.liquid_assets \o data.illiquid_assets \o data.stocks_my
        \o data.stocks_us \o data.gold

C25_EmptyAndTotalRowsSkipped ==
    (pc = "file_returned" /\ "sheets" \in DOMAIN doc /\ result.success) =>
        /\ Len(ItemsOf(result.data)) <= Cardinality(RowsKept(doc.sheets))
        /\ \A i \in DOMAIN ItemsOf(result.data) :
              /\ ~ContainsAny(ItemsOf(result.data)[i].name, WordTotal)
              /\ ItemsOf(result.data)[i].name # <<"n", "a", "n">>

(***************************************************************************)
(* C29: for a workbook of assets sheets, every row with a name and a       *)
(* positive number as its value is in exactly one of liquid_assets and     *)
(* illiquid_assets and no other row is in either; an item is illiquid      *)
(* exactly when its name holds KWSP, EPF or the word for provident fund;   *)
(* its category is stocks, else gold, else investment, else cash, by the   *)
(* words of its name.                                                      *)
(***************************************************************************)
NamesIlliquid(name) ==
    \E w \in {<<"K", "W", "S", "P">>, <<"E", "P", "F">>, WordProvident} : Contains(name, w)

CategoryByName(name) ==
    CASE Contains(name, WordStock) \/ Contains(LowerText(name), <<"s", "t", "o", "c", "k">>)
            -> "stocks"
      [] OTHER ->
            CASE Contains(name, WordGold) \/ Contains(LowerText(name), <<"g", "o", "l", "d">>)
                    -> "gold"
              [] OTHER ->
                    IF Contains(name, <<"A", "S", "N", "B">>) \/ Contains(name, WordFund)
                    THEN "investment" ELSE "cash"

\* the row has a name and a positive number as its value
Retained(row) ==
    /\ row[1] # NaN
    /\ row[2] # NaN
    /\ FloatOk(row[2])
    /\ Float(row[2]) > 0

OnlyAssetsSheets(d) ==
    /\ "sheets" \in DOMAIN d
    /\ \A s \in DOMAIN d.sheets : Contains(d.sheets[s].name, WordAssets)

C29_AssetRowsInOneList ==
    (pc = "file_returned" /\ OnlyAssetsSheets(doc) /\ result.success) =>
        /\ Len(result.data.liquid_assets) + Len(result.data.illiquid_assets)
              = Cardinality({<<s, r>> \in (DOMAIN doc.sheets) \X (2..(MaxRows + 1)) :
                                r <= Len(doc.sheets[s].rows)
                                    /\ Retained(doc.sheets[s].rows[r])})
        /\ \A i \in DOMAIN result.data.liquid_assets :
              /\ ~NamesIlliquid(result.data.liquid_assets[i].name)
              /\ result.data.liquid_assets[i].category
                    = CategoryByName(result.data.liquid_assets[i].name)
              /\ "nan" \notin DOMAIN result.data.liquid_assets[i]
              /\ result.data.liquid_assets[i].value > 0
        /\ \A i \in DOMAIN result.data.illiquid_assets :
              /\ NamesIlliquid(result.data.illiquid_assets[i].name)
              /\ result.data.illiquid_assets[i].category
                    = CategoryByName(result.data.illiquid_assets[i].name)
              /\ "nan" \notin DOMAIN result.data.illiquid_assets[i]
              /\ result.data.illiquid_assets[i].value > 0

(***************************************************************************)
(* C30: parse_excel gives every sheet to one parser at most, the assets    *)
(* parser if its name holds the word for assets, else the stocks parser,   *)
(* else the gold parser, by the words of its name; each list of the result *)
(* is what the sheets give to it, in the order of the sheets; a sheet of   *)
(* no category and a sheet its parser fails on give nothing and take       *)
(* nothing from the others.                                                *)
(***************************************************************************)
NamedAssets(name) == Contains(name, WordAssets)

NamedStocks(name) ==
    Contains(name, WordStock) \/ Contains(LowerText(name), <<"s", "t", "o", "c", "k">>)

NamedGold(name) ==
    Contains(name, WordGold) \/ Contains(LowerText(name), <<"g", "o", "l", "d">>)

\* what a sheet gives to a list of the result
Gives(sheet, field) ==
    IF ~sheet.readable THEN <<>>
    ELSE IF NamedAssets(sheet.name)
    THEN (IF field = "liquid_assets" THEN _parse_assets_sheet(sheet).liquid
          ELSE IF field = "illiquid_assets" THEN _parse_assets_sheet(sheet).illiquid
          ELSE <<>>)
    ELSE IF NamedStocks(sheet.name)
    THEN (IF field = "stocks_my" THEN _parse_stocks_sheet(sheet).my
          ELSE IF field = "stocks_us" THEN _parse_stocks_sheet(sheet).us
          ELSE <<>>)
    ELSE IF NamedGold(sheet.name) /\ field = "gold" THEN _parse_gold_sheet(sheet)
    ELSE <<>>

C30_OneParserPerSheet ==
    (pc = "file_returned" /\ "sheets" \in DOMAIN doc /\ doc.readable) =>
        /\ result.success
        /\ \A field \in ListFields :
              result.data[field]
                = Concat([s \in DOMAIN doc.sheets |-> Gives(doc.sheets[s], field)])

C30_Witness ==
    /\ pc = "file_returned"
    /\ "sheets" \in DOMAIN doc
    /\ Len(doc.sheets) = 3
    /\ ~doc.sheets[1].readable
    /\ NamedAssets(doc.sheets[2].name) /\ NamedStocks(doc.sheets[2].name)
    /\ Len(result.data.illiquid_assets) = 2
    /\ result.data.illiquid_assets[1].name = <<"E", "P", "F">>
    /\ result.data.illiquid_assets[2].name = <<"K", "W", "S", "P">>
    /\ result.data.stocks_us = <<>>

(***************************************************************************)
(* The handler of /api/parse-statement (complete_api_server_safe.py).      *)
(* A request holds the uploaded file, if any, and what the host does to    *)
(* the run: whether file.save writes the upload, whether the import of     *)
(* statement_parser succeeds, whether jsonify can encode the result.       *)
(***************************************************************************)
allowed_extensions == ExtsExcel \cup {ExtCsv, ExtPdf}

\* file.filename.rsplit('.', 1)[1].lower() if '.' in file.filename else ''
UploadExt(filename) ==
    IF \E i \in DOMAIN filename : filename[i] = "." THEN file_ext(filename) ELSE <<>>

\* the name NamedTemporaryFile gives to the file it creates
TempPath(suffix) == <<"t", "m", "p", ".">> \o suffix

\* what the handler returns, and the temporary files it leaves on disk
Answer(status, body, disk) == [status |-> status, body |-> body, disk |-> disk]

\* os.unlink: the file is gone afterwards (a second unlink raises and is passed over)
Unlink(disk, path) == disk \ {path}

\* lines 351-376: the inner try, entered with the upload saved at temp_path
ParseSaved(request, temp_path, disk) ==
    IF ~request.imports
    THEN Answer(500, [success |-> FALSE, error |-> "parse failed"], Unlink(disk, temp_path))
    ELSE IF ~request.encodes
    THEN Answer(500, [success |-> FALSE, error |-> "parse failed"],
                Unlink(Unlink(disk, temp_path), temp_path))
    ELSE Answer(200, parse_file([request.file EXCEPT !.file_path = temp_path]),
                Unlink(disk, temp_path))

parse_statement(request, disk) ==
    IF ~request.has_file
    THEN Answer(400, [success |-> FALSE, error |-> "no file uploaded"], disk)
    ELSE IF request.file.file_path = <<>>
    THEN Answer(400, [success |-> FALSE, error |-> "empty file name"], disk)
    ELSE IF UploadExt(request.file.file_path) \notin allowed_extensions
    THEN Answer(400, [success |-> FALSE, error |-> "unsupported file format"], disk)
    ELSE IF ~request.saves
    THEN Answer(500, [success |-> FALSE, error |-> "save failed"],
                disk \cup {TempPath(UploadExt(request.file.file_path))})
    ELSE ParseSaved(request, TempPath(UploadExt(request.file.file_path)),
                    disk \cup {TempPath(UploadExt(request.file.file_path))})

FilesUploaded ==
    FilesCsv \cup FilesOther
      \cup {f \in FilesPdf : ~f.readable \/ Len(f.pages) = 0}
      \cup {Workbook(<<SheetAssets1>>), [Workbook(<<SheetStocks1>>) EXCEPT !.file_path = PathXLS],
            [file_path |-> <<>>, readable |-> TRUE]}

Uploads ==
    {[has_file |-> FALSE]}
      \cup {[has_file |-> TRUE, file |-> f, saves |-> s, imports |-> i, encodes |-> e] :
              f \in FilesUploaded, s \in BOOLEAN, i \in BOOLEAN, e \in BOOLEAN}

InitUpload ==
    /\ keys = [p \in ProviderSet |-> FALSE]
    /\ doc \in Uploads
    /\ pc = "parse_statement"
    /\ calls = <<>>
    /\ response = None
    /\ fallbackRan = FALSE
    /\ result = None
    /\ report = None
    /\ HostIdle

Answered(a) ==
    /\ result' = [status |-> a.status, body |-> a.body]
    /\ tmp' = a.disk

\* one request to /api/parse-statement
ParseStatement ==
    /\ pc = "parse_statement"
    /\ Answered(parse_statement(doc, tmp))
    /\ pc' = "statement_returned"
    /\ UNCHANGED <<keys, doc, calls, response, fallbackRan, report, reportCalls, cache, now>>

NextUpload == ParseStatement

SpecUpload == InitUpload /\ [][NextUpload]_vars

(***************************************************************************)
(* C26: when the handler of /api/parse-statement has returned, no          *)
(* temporary file it created is left on disk.                              *)
(***************************************************************************)
C26_TempFileDeleted == pc = "statement_returned" => tmp = {}

\* the same, for the runs in which file.save wrote the upload
C26_DeletedOnceSaved ==
    (pc = "statement_returned" /\ doc.has_file /\ doc.saves) => tmp = {}

(***************************************************************************)
(* The price servers (complete_api_server_safe.py, complete_api_server_ai.py).*)
(* Both keep their files in CACHE_DIR = 'cache' of the working directory.  *)
(* A file of the directory is absent, holds the JSON of an entry, or holds *)
(* what a failed write left (json.load raises on it).  The clock counts    *)
(* minutes; a timestamp is the clock at the time it was taken.  Amounts    *)
(* are in thousandths.  The last_updated texts of the entries, and the     *)
(* change_percent and volume of a quote, are left out.                     *)
(***************************************************************************)
CACHE_DURATION == 15

KeyGold == <<"gold_price">>
KeyForex == <<"forex", "USD", "MYR">>
StockKey(symbol, exchange) == <<"stock", symbol, exchange>>

CacheKeys == {KeyGold, KeyForex, StockKey("AAPL", "US")}

Absent == [kind |-> "absent"]
Partial == [kind |-> "partial"]
Entry(content) == [kind |-> "json", content |-> content]

\* variant: an entry as old as CACHE_DURATION is still served
load_cache_upto(files, clock, cache_key) ==
    IF files[cache_key].kind # "json" THEN None
    ELSE IF "timestamp" \notin DOMAIN files[cache_key].content THEN None
    ELSE IF clock - files[cache_key].content.timestamp <= CACHE_DURATION
    THEN files[cache_key].content
    ELSE None

\* load_cache; a missing file, a file json.load raises on and an entry
\* without 'timestamp' (KeyError) all end in `return None`
load_cache(files, clock, cache_key) ==
    IF files[cache_key].kind # "json" THEN None
    ELSE IF "timestamp" \notin DOMAIN files[cache_key].content THEN None
    ELSE IF clock - files[cache_key].content.timestamp < CACHE_DURATION
    THEN files[cache_key].content
    ELSE None

\* what a write does: the entry is written, or the write fails after open()
\* has truncated the file and save_cache passes over the exception
Writes == {"written", "partial"}

save_cache(files, cache_key, data, write) ==
    IF write = "written" THEN [files EXCEPT ![cache_key] = Entry(data)]
    ELSE [files EXCEPT ![cache_key] = Partial]

\* what a handler returns, the files it leaves, the keys it asked the provider for
Reply(status, body, files, fetched) ==
    [status |-> status, body |-> body, files |-> files, fetched |-> fetched]

Failure(message) == [success |-> FALSE, error |-> message]

\* round(price * percent / 100, 2)
Buyback(price, percent) ==
    10 * ((price * percent) \div 1000)
        + (IF (price * percent) % 1000 > 500
              \/ ((price * percent) % 1000 = 500 /\ ((price * percent) \div 1000) % 2 = 1)
           THEN 10 ELSE 0)

(* complete_api_server_safe.py *)

GoldResult(gold_916, clock) ==
    [success |-> TRUE,
     data |-> [gold_916 |-> gold_916,
               gold_916_buyback_90 |-> Buyback(gold_916, 90),
               gold_916_buyback_93 |-> Buyback(gold_916, 93),
               gold_916_buyback_95 |-> Buyback(gold_916, 95),
               source |-> "buysilvermalaysia.com"],
     timestamp |-> clock]

\* page: the request raised, or the price the loop over the rows found (0: none)
get_gold_price(files, clock, page, write) ==
    IF load_cache(files, clock, KeyGold) # None
    THEN Reply(200, load_cache(files, clock, KeyGold), files, <<>>)
    ELSE IF page.raises THEN Reply(500, Failure("exception"), files, <<KeyGold>>)
    ELSE IF page.gold_916 = 0 THEN Reply(500, Failure("no gold price"), files, <<KeyGold>>)
    ELSE Reply(200, GoldResult(page.gold_916, clock),
               save_cache(files, KeyGold, GoldResult(page.gold_916, clock), write),
               <<KeyGold>>)

StockResult(symbol, exchange, quote, clock) ==
    [success |-> TRUE,
     data |-> [symbol |-> symbol, exchange |-> exchange,
               price |-> quote.price, change |-> quote.change],
     timestamp |-> clock]

\* answer: the request raised, or the 'Global Quote' of the answer (None: missing or empty)
get_stock_price(configured, files, clock, symbol, exchange, answer, write) ==
    IF ~configured THEN Reply(500, Failure("no API key"), files, <<>>)
    ELSE IF load_cache(files, clock, StockKey(symbol, exchange)) # None
    THEN Reply(200, load_cache(files, clock, StockKey(symbol, exchange)), files, <<>>)
    ELSE IF answer.raises
    THEN Reply(500, Failure("exception"), files, <<StockKey(symbol, exchange)>>)
    ELSE IF answer.quote = None
    THEN Reply(404, Failure("no data for the symbol"), files, <<StockKey(symbol, exchange)>>)
    ELSE Reply(200, StockResult(symbol, exchange, answer.quote, clock),
               save_cache(files, StockKey(symbol, exchange),
                          StockResult(symbol, exchange, answer.quote, clock), write),
               <<StockKey(symbol, exchange)>>)

StockData(symbol, exchange, quote) ==
    [symbol |-> symbol, exchange |-> exchange, price |-> quote.price, success |-> TRUE]

StockFailed(symbol, exchange, message) ==
    [symbol |-> symbol, exchange |-> exchange, success |-> FALSE, error |-> message]

\* the loop of get_stock_prices before its first turn
LoopStart(files) == [files |-> files, results |-> <<>>, fetched |-> <<>>, raised |-> FALSE]

\* one turn of the loop of get_stock_prices; cache_data['data'] of an entry
\* without 'data' raises outside the inner try
StockTurn(acc, clock, symbol, exchange, answer, write) ==
    IF acc.raised THEN acc
    ELSE IF load_cache(acc.files, clock, StockKey(symbol, exchange)) # None
    THEN (IF "data" \in DOMAIN load_cache(acc.files, clock, StockKey(symbol, exchange))
          THEN [acc EXCEPT !.results =
                  Append(@, load_cache(acc.files, clock, StockKey(symbol, exchange)).data)]
          ELSE [acc EXCEPT !.raised = TRUE])
    ELSE IF answer.raises
    THEN [acc EXCEPT !.results = Append(@, StockFailed(symbol, exchange, "exception")),
                     !.fetched = Append(@, StockKey(symbol, exchange))]
    ELSE IF answer.quote = None
    THEN [acc EXCEPT !.results = Append(@, StockFailed(symbol, exchange, "no data")),
                     !.fetched = Append(@, StockKey(symbol, exchange))]
    ELSE [acc EXCEPT !.files = save_cache(@, StockKey(symbol, exchange),
                                 [success |-> TRUE,
                                  data |-> StockData(symbol, exchange, answer.quote),
                                  timestamp |-> clock], write),
                     !.results = Append(@, StockData(symbol, exchange, answer.quote)),
                     !.fetched = Append(@, StockKey(symbol, exchange))]

RECURSIVE StockLoop(_, _, _, _, _, _)
StockLoop(files, clock, symbols, answers, writes, n) ==
    IF n = 0 THEN LoopStart(files)
    ELSE StockTurn(StockLoop(files, clock, symbols, answers, writes, n - 1), clock,
                   symbols[n].symbol, symbols[n].exchange, answers[n], writes[n])

Looped(acc, files, clock) ==
    IF acc.raised THEN Reply(500, Failure("exception"), acc.files, acc.fetched)
    ELSE Reply(200, [success |-> TRUE, data |-> acc.results, timestamp |-> clock],
               acc.files, acc.fetched)

get_stock_prices(configured, files, clock, symbols, answers, writes) ==
    IF ~configured THEN Reply(500, Failure("no API key"), files, <<>>)
    ELSE IF symbols = <<>> THEN Reply(400, Failure("no symbols"), files, <<>>)
    ELSE Looped(StockLoop(files, clock, symbols, answers, writes, Len(symbols)), files, clock)

ForexResult(from_currency, to_currency, rate, clock) ==
    [success |-> TRUE,
     data |-> [from |-> from_currency, to |-> to_currency, rate |-> rate],
     timestamp |-> clock]

\* answer: the request raised, or the rate of the answer (None: no
\* 'Realtime Currency Exchange Rate')
get_forex_rate(configured, files, clock, answer, write) ==
    IF ~configured THEN Reply(500, Failure("no API key"), files, <<>>)
    ELSE IF load_cache(files, clock, KeyForex) # None
    THEN Reply(200, load_cache(files, clock, KeyForex), files, <<>>)
    ELSE IF answer.raises THEN Reply(500, Failure("exception"), files, <<KeyForex>>)
    ELSE IF answer.quote = None
    THEN Reply(500, Failure("no exchange rate"), files, <<KeyForex>>)
    ELSE Reply(200, ForexResult("USD", "MYR", answer.quote.price, clock),
               save_cache(files, KeyForex,
                          ForexResult("USD", "MYR", answer.quote.price, clock), write),
               <<KeyForex>>)

(* complete_api_server_ai.py *)

ReferenceGold == 630000
ReferenceBuyback93 == 585900
ReferenceBuyback95 == 598500

\* lines 87-105: the prices of the page, or the reference prices with a note
GoldPrices(page, clock) ==
    IF page.gold_916 # 0
    THEN [success |-> TRUE,
          data |-> [gold_916 |-> page.gold_916,
                    gold_916_buyback_93 |-> Buyback(page.gold_916, 93),
                    gold_916_buyback_95 |-> Buyback(page.gold_916, 95),
                    timestamp |-> clock, source |-> "BuySilverMalaysia.com"]]
    ELSE [success |-> TRUE,
          data |-> [gold_916 |-> ReferenceGold,
                    gold_916_buyback_93 |-> ReferenceBuyback93,
                    gold_916_buyback_95 |-> ReferenceBuyback95,
                    note |-> "reference price",
                    timestamp |-> clock, source |-> "BuySilverMalaysia.com"]]

\* lines 110-122
GoldReference(clock) ==
    [success |-> TRUE,
     data |-> [gold_916 |-> ReferenceGold,
               gold_916_buyback_93 |-> ReferenceBuyback93,
               gold_916_buyback_95 |-> ReferenceBuyback95,
               timestamp |-> clock, source |-> "Reference Price", error |-> "exception"]]

\* page: the request raised, or the price the pattern found (0: no match)
get_gold_price_ai(files, clock, force_refresh, page, write) ==
    IF ~force_refresh /\ load_cache(files, clock, KeyGold) # None
    THEN Reply(200, load_cache(files, clock, KeyGold), files, <<>>)
    ELSE IF page.raises THEN Reply(200, GoldReference(clock), files, <<KeyGold>>)
    ELSE Reply(200, GoldPrices(page, clock),
               save_cache(files, KeyGold, GoldPrices(page, clock), write), <<KeyGold>>)

StockResultFlat(symbol, exchange, quote, clock) ==
    [success |-> TRUE, symbol |-> symbol, exchange |-> exchange,
     price |-> quote.price, change |-> quote.change, timestamp |-> clock]

get_stock_price_ai(configured, files, clock, symbol, exchange, answer, write) ==
    IF ~configured THEN Reply(500, Failure("no API key"), files, <<>>)
    ELSE IF load_cache(files, clock, StockKey(symbol, exchange)) # None
    THEN Reply(200, load_cache(files, clock, StockKey(symbol, exchange)), files, <<>>)
    ELSE IF answer.raises
    THEN Reply(500, Failure("exception"), files, <<StockKey(symbol, exchange)>>)
    ELSE IF answer.quote = None
    THEN Reply(404, Failure("no data"), files, <<StockKey(symbol, exchange)>>)
    ELSE Reply(200, StockResultFlat(symbol, exchange, answer.quote, clock),
               save_cache(files, StockKey(symbol, exchange),
                          StockResultFlat(symbol, exchange, answer.quote, clock), write),
               <<StockKey(symbol, exchange)>>)

\* the entries the loop of get_multiple_stock_prices appends
RECURSIVE CachedOf(_, _, _, _)
CachedOf(files, clock, stocks, n) ==
    IF n = 0 THEN <<>>
    ELSE CachedOf(files, clock, stocks, n - 1)
           \o (IF load_cache(files, clock, StockKey(stocks[n].symbol, stocks[n].exchange)) # None
                  /\ load_cache(files, clock, StockKey(stocks[n].symbol, stocks[n].exchange)).success
               THEN <<load_cache(files, clock, StockKey(stocks[n].symbol, stocks[n].exchange))>>
               ELSE <<>>)

get_multiple_stock_prices(files, clock, stocks) ==
    IF stocks = <<>> THEN Reply(400, Failure("no stocks"), files, <<>>)
    ELSE Reply(200, [success |-> TRUE,
                     results |-> CachedOf(files, clock, stocks, Len(FirstN(stocks, 10))),
                     total |-> Len(CachedOf(files, clock, stocks, Len(FirstN(stocks, 10))))],
               files, <<>>)

(* The requests and what the providers answer. *)

MaxClock == 15      \* the clock stops here
Waits == {7, 8}     \* minutes between two requests: ages of 14 and 15 minutes occur

Pages == {[raises |-> TRUE], [raises |-> FALSE, gold_916 |-> 0],
          [raises |-> FALSE, gold_916 |-> 640000]}

Answers == {[raises |-> TRUE], [raises |-> FALSE, quote |-> None],
            [raises |-> FALSE, quote |-> [price |-> 4450, change |-> -10]]}

SymbolLists ==
    {<<>>, <<[symbol |-> "AAPL", exchange |-> "US"]>>,
     <<[symbol |-> "AAPL", exchange |-> "US"], [symbol |-> "AAPL", exchange |-> "US"]>>}

InitServer ==
    /\ keys \in [{"alpha_vantage"} -> BOOLEAN]
    /\ doc = None
    /\ pc = "serving"
    /\ calls = <<>>
    /\ response = None
    /\ fallbackRan = FALSE
    /\ result = None
    /\ report = None
    /\ reportCalls = <<>>
    /\ cache = [k \in CacheKeys |-> Absent]
    /\ now = 0
    /\ tmp = {}

\* a handler has returned r to the request named route
Served(route, request, r) ==
    /\ pc' = route
    /\ doc' = request
    /\ result' = [status |-> r.status, body |-> r.body]
    /\ calls' = r.fetched
    /\ cache' = r.files
    /\ UNCHANGED <<keys, response, fallbackRan, report, reportCalls, now, tmp>>

GoldPrice ==
    \E page \in Pages, write \in Writes :
        Served("gold_price", None, get_gold_price(cache, now, page, write))

StockPrice ==
    \E answer \in Answers, write \in Writes :
        Served("stock_price", [symbol |-> "AAPL", exchange |-> "US"],
               get_stock_price(keys.alpha_vantage, cache, now, "AAPL", "US", answer, write))

StockPrices ==
    \E symbols \in SymbolLists :
        \E answers \in [DOMAIN symbols -> Answers], writes \in [DOMAIN symbols -> Writes] :
            Served("stock_prices", [symbols |-> symbols],
                   get_stock_prices(keys.alpha_vantage, cache, now, symbols, answers, writes))

ForexRate ==
    \E answer \in Answers, write \in Writes :
        Served("forex_rate", [from |-> "USD", to |-> "MYR"],
               get_forex_rate(keys.alpha_vantage, cache, now, answer, write))

GoldPriceAi ==
    \E force_refresh \in BOOLEAN, page \in Pages, write \in Writes :
        Served("gold_price_ai", [force_refresh |-> force_refresh],
               get_gold_price_ai(cache, now, force_refresh, page, write))

StockPriceAi ==
    \E answer \in Answers, write \in Writes :
        Served("stock_price_ai", [symbol |-> "AAPL", exchange |-> "US"],
               get_stock_price_ai(keys.alpha_vantage, cache, now, "AAPL", "US", answer, write))

MultipleStockPrices ==
    \E stocks \in SymbolLists :
        Served("stock_prices_ai", [stocks |-> stocks],
               get_multiple_stock_prices(cache, now, stocks))

\* time passes until the next request; the answer to the last one has gone out
Wait ==
    /\ \E d \in Waits : now + d <= MaxClock /\ now' = now + d
    /\ pc' = "serving"
    /\ doc' = None
    /\ result' = None
    /\ calls' = <<>>
    /\ UNCHANGED <<keys, response, fallbackRan, report, reportCalls, cache, tmp>>

NextServer ==
    \/ GoldPrice \/ StockPrice \/ StockPrices \/ ForexRate
    \/ GoldPriceAi \/ StockPriceAi \/ MultipleStockPrices
    \/ Wait

SpecServer == InitServer /\ [][NextServer]_vars

(***************************************************************************)
(* C27: load_cache returns the entry of a key only if its file exists,     *)
(* parses, and carries a timestamp strictly less than CACHE_DURATION old,  *)
(* and None in every other case; no endpoint answers from an entry aged    *)
(* CACHE_DURATION or more.                                                 *)
(***************************************************************************)
Servable(file, clock) ==
    /\ file.kind = "json"
    /\ "timestamp" \in DOMAIN file.content
    /\ clock - file.content.timestamp < CACHE_DURATION

\* the routes that return the entry itself on a hit
RoutesOfOne == {"gold_price", "stock_price", "forex_rate", "gold_price_ai", "stock_price_ai"}

\* the handler answered without asking the provider
Hit == pc \in RoutesOfOne /\ result.status = 200 /\ calls = <<>>

Asked(key) == \E i \in DOMAIN calls : calls[i] = key

C27_NoStaleOrCorruptEntry ==
    /\ \A k \in CacheKeys :
          load_cache(cache, now, k)
            = IF Servable(cache[k], now) THEN cache[k].content ELSE None
    /\ Hit => /\ "timestamp" \in DOMAIN result.body
              /\ now - result.body.timestamp < CACHE_DURATION
              /\ \E k \in CacheKeys : Servable(cache[k], now) /\ result.body = cache[k].content
    /\ (pc = "stock_prices" /\ result.status = 200) =>
          \A i \in DOMAIN doc.symbols :
              ~Asked(StockKey(doc.symbols[i].symbol, doc.symbols[i].exchange))
                  => Servable(cache[StockKey(doc.symbols[i].symbol, doc.symbols[i].exchange)], now)
    /\ (pc = "stock_prices_ai" /\ result.status = 200) =>
          \A i \in DOMAIN result.body.results :
              now - result.body.results[i].timestamp < CACHE_DURATION

\* an entry exactly CACHE_DURATION old was passed over and the provider asked,
\* next to a file that does not parse
C27_Witness ==
    /\ pc = "stock_price"
    /\ calls = <<StockKey("AAPL", "US")>>
    /\ cache[StockKey("AAPL", "US")].kind = "json"
    /\ now - cache[StockKey("AAPL", "US")].content.timestamp = CACHE_DURATION
    /\ cache[KeyGold] = Partial
    /\ load_cache(cache, now, KeyGold) = None

(***************************************************************************)
(* C28: every entry of the cache has success true and was written from a   *)
(* value fetched from the provider: no error response and no hard-coded    *)
(* reference price is in the cache.                                        *)
(***************************************************************************)
IsReference(content) ==
    /\ "data" \in DOMAIN content
    /\ "note" \in DOMAIN content.data

C28_OnlyFetchedValuesCached ==
    \A k \in CacheKeys :
        cache[k].kind = "json" =>
            /\ cache[k].content.success
            /\ ~IsReference(cache[k].content)

\* what a hit returns
C28_HitReturnsFetchedValue ==
    Hit => result.body.success /\ ~IsReference(result.body)

====
